---- MODULE Spec2Model ----
(***************************************************************************)
(* Intelligence hub: the event bus (src/events/bus.py), the core service   *)
(* (src/core/service.py: registry, relevance router, fan-out/gather        *)
(* orchestrator, ingestion handler) and the event handlers of the three    *)
(* mock modules (src/modules/*_module.py) as wired by src/main.py.          *)
(*                                                                         *)
(* Everything runs on one asyncio event loop.  A coroutine runs without    *)
(* interruption until it really suspends (asyncio.sleep, asyncio.gather    *)
(* over at least one child); `running` is the task that holds the loop, 0  *)
(* when the loop is free to resume any task.  Each task's chain of awaited *)
(* coroutines is a stack of frames.                                        *)
(***************************************************************************)
EXTENDS Integers, Sequences, FiniteSets, TLC

(***************************************************************************)
(* Bounds of the model.                                                    *)
(***************************************************************************)
\* Number of concurrently running entry-point coroutines (requests).
MaxTasks == 2
\* Module ids (UUIDs) in use: 1..MaxModuleIds.
MaxModuleIds == 2
\* No new entry-point call starts once this many events have been created.
MaxEvents == 5
\* Depth of the coroutine chain at which the interpreter raises
\* RecursionError (sys.getrecursionlimit(), counted in frames of this model).
RecursionLimit == 5
\* EventBus.max_history (1000 in bus.py:11), scaled down.
max_history == 3
\* Capacity of SharedContext.conversation_history (100 in context.py:52),
\* scaled down.
conversation_capacity == 2
\* The insight cache's window, timedelta(hours=1) in context.py:77, in ticks
\* of the model's clock.
one_hour == 2
\* The slices of get_relevant_context ([-5:] and [-3:] in context.py:86,91),
\* scaled down with the capacity.
recent_conversations == 1
recent_insights == 1
\* The clock readings of the model: 0..MaxTime.
MaxTime == 2

Tasks == 1..MaxTasks
ModuleIds == 1..MaxModuleIds
\* self.module_id = None of a module that has not registered yet.
NoneId == 0
\* A source UUID that belongs to no module.
ExternalId == MaxModuleIds + 1

(***************************************************************************)
(* src/core/models.py                                                      *)
(***************************************************************************)
EventType ==
  << "task_created", "task_updated", "task_completed", "message_received",
     "message_sent", "insight_generated", "user_activity", "module_registered",
     "intelligence_response" >>

EventKinds == {EventType[i] : i \in 1..Len(EventType)}

ModuleType == {"chat", "tasks", "insights", "automation", "third_party"}

\* IntelligenceEvent.  Of the payload, request_id and module_responses are
\* what the hub writes into it (an IntelligenceResponse dump); payload holds
\* the keys the shared context reads (task_id, status, user_id, activity_type,
\* content, insight), a dict that is empty unless the publisher fills it.
IntelligenceEvent(id, kind, source) ==
  [event_id |-> id, event_type |-> kind, source_module |-> source,
   request_id |-> 0, module_responses |-> << >>, payload |-> << >>]

NoEvent == IntelligenceEvent(0, "none", NoneId)

\* ModuleRegistration (version, description, endpoint and metadata are never
\* read by the hub's logic; name only goes into the module_registered event).
ModuleRegistration(id, type, caps) ==
  [module_id |-> id, module_type |-> type, capabilities |-> caps, name |-> ""]

WithName(registration, name) == [registration EXCEPT !.name = name]

NoRegistration == ModuleRegistration(NoneId, "none", {})

(***************************************************************************)
(* State                                                                   *)
(***************************************************************************)
VARIABLES
  subscribers,         \* EventBus.subscribers: kind -> list of callbacks
  event_history,       \* EventBus.event_history
  registered_modules,  \* CoreIntelligenceService.registered_modules, in dict order
  event_handlers,      \* CoreIntelligenceService.event_handlers (its keys)
  module_id,           \* module_id of the task, chat and insight module objects
  stack,               \* per task: the chain of awaited coroutines, outermost first
  running,             \* the task holding the event loop, 0 when it is free
  nextId,              \* next fresh event id (uuid4); events are published as
                       \* they are created, so ids count the publish calls
  shared_context,      \* CoreIntelligenceService.shared_context
  now,                 \* the reading of the clock (datetime.now())
  relevant_context,    \* the value get_relevant_context returned to a direct caller
  call,                \* a direct call of one of the service's functions: its arguments
  result               \* the value that call returned
                       \* (each of the three is << >> as long as there is none)

\* The variables of the bus, the registry and the tasks.
hubVars ==
  << subscribers, event_history, registered_modules, event_handlers, module_id,
     stack, running, nextId >>

\* The caller's side of the direct calls.
callVars == << relevant_context, call, result >>

vars ==
  << subscribers, event_history, registered_modules, event_handlers, module_id,
     stack, running, nextId, shared_context, now, callVars >>

(***************************************************************************)
(* The callbacks subscribed by the module constructors and by the hub.     *)
(***************************************************************************)
Core == "core._handle_incoming_event"

Owners == {"task", "chat", "insight"}

\* For each module callback: the module object it is bound to, the kind of
\* event it publishes ("none": it publishes nothing), whether it ignores the
\* module's own events, and whether it awaits asyncio.sleep before publishing.
ModuleHandlers ==
  [h \in { "task._handle_task_created", "task._handle_intelligence_response",
           "task._handle_task_analysis", "chat._handle_message",
           "chat._handle_intelligence_response", "insight._handle_task_event",
           "insight._handle_message_event", "insight._handle_user_activity" } |->
     CASE h = "task._handle_task_created" ->
            [owner |-> "task", emits |-> "insight_generated", skips_own |-> TRUE, sleeps |-> TRUE]
       [] h = "task._handle_intelligence_response" ->
            [owner |-> "task", emits |-> "none", skips_own |-> FALSE, sleeps |-> FALSE]
       [] h = "task._handle_task_analysis" ->
            [owner |-> "task", emits |-> "none", skips_own |-> FALSE, sleeps |-> FALSE]
       [] h = "chat._handle_message" ->
            [owner |-> "chat", emits |-> "message_sent", skips_own |-> TRUE, sleeps |-> TRUE]
       [] h = "chat._handle_intelligence_response" ->
            [owner |-> "chat", emits |-> "none", skips_own |-> FALSE, sleeps |-> FALSE]
       [] h = "insight._handle_task_event" ->
            [owner |-> "insight", emits |-> "insight_generated", skips_own |-> FALSE, sleeps |-> TRUE]
       [] h = "insight._handle_message_event" ->
            [owner |-> "insight", emits |-> "insight_generated", skips_own |-> FALSE, sleeps |-> TRUE]
       [] OTHER ->
            [owner |-> "insight", emits |-> "insight_generated", skips_own |-> FALSE, sleeps |-> FALSE]]

\* The subscriptions made by TaskModule, ChatModule and InsightModule when
\* main.py constructs them, in construction order.
ConstructedSubscribers ==
  [k \in EventKinds \cup {"task_analysis_complete"} |->
     CASE k = "task_created" ->
            << "task._handle_task_created", "insight._handle_task_event" >>
       [] k = "intelligence_response" ->
            << "task._handle_intelligence_response", "chat._handle_intelligence_response" >>
       [] k = "task_analysis_complete" -> << "task._handle_task_analysis" >>
       [] k = "message_received" ->
            << "chat._handle_message", "insight._handle_message_event" >>
       [] k = "user_activity" -> << "insight._handle_user_activity" >>
       [] OTHER -> << >>]

\* The registration each module object builds in its register().
OwnRegistration(owner, id) ==
  CASE owner = "task" ->
         WithName(ModuleRegistration(id, "tasks",
                    {"task_management", "prioritization", "automation", "analysis"}),
                  "Task Intelligence Engine")
    [] owner = "chat" ->
         WithName(ModuleRegistration(id, "chat",
                    {"chat", "sentiment_analysis", "context_awareness",
                     "response_suggestion"}),
                  "Smart Chat Assistant")
    [] OTHER ->
         WithName(ModuleRegistration(id, "insights",
                    {"insights", "pattern_recognition", "analytics", "trend_analysis"}),
                  "Insight Generator")

\* Registrations a client posts to /modules/register: any id, with one of a
\* few capability lists (irrelevant to every kind, relevant to several kinds).
ClientRegistrations ==
  { WithName(ModuleRegistration(id, "third_party", caps), "Client Module") :
      id \in ModuleIds,
      caps \in { {"prioritization"}, {"automation", "insights"} } }

\* The kinds a client of the bus publishes: one of each way the subscriber
\* table and the router treat a kind (module callbacks that sleep and skip
\* their own events, a callback that publishes at once, no callback and no
\* relevance set, the response kind).
ExternalKinds ==
  {"task_created", "user_activity", "task_updated", "intelligence_response"}

(***************************************************************************)
(* Relevance router (service.py)                                           *)
(***************************************************************************)
\* Faulty variant: task_created is routed to the capability chat as well.
relevance_map_task_created_to_chat(kind) ==
  CASE kind = "task_created" -> {"task_management", "automation", "analysis", "chat"}
    [] kind = "message_received" -> {"chat", "insights", "sentiment_analysis"}
    [] kind = "insight_generated" -> {"insights", "knowledge_base", "analytics"}
    [] kind = "user_activity" -> {"analytics", "insights", "automation"}
    [] OTHER -> {}

\* Faulty variant: a kind without relevance set falls back to a non-empty set.
relevance_map_default_routes(kind) ==
  CASE kind = "task_created" -> {"task_management", "automation", "analysis"}
    [] kind = "message_received" -> {"chat", "insights", "sentiment_analysis"}
    [] kind = "insight_generated" -> {"insights", "knowledge_base", "analytics"}
    [] kind = "user_activity" -> {"analytics", "insights", "automation"}
    [] OTHER -> {"task_management", "automation", "analysis"}

\* relevance_map.get(event.event_type, set())
relevance_map(kind) ==
  CASE kind = "task_created" -> {"task_management", "automation", "analysis"}
    [] kind = "message_received" -> {"chat", "insights", "sentiment_analysis"}
    [] kind = "insight_generated" -> {"insights", "knowledge_base", "analytics"}
    [] kind = "user_activity" -> {"analytics", "insights", "automation"}
    [] OTHER -> {}

\* Faulty variant: the comparison with the event's source is missing.
_is_module_relevant_no_self_check(module, event) ==
  (module.capabilities \cap relevance_map(event.event_type)) # {}

_is_module_relevant(module, event) ==
  IF module.module_id = event.source_module
    THEN FALSE
    ELSE (module.capabilities \cap relevance_map(event.event_type)) # {}

\* The loop over registered_modules.values(), appending the relevant ones.
RECURSIVE RelevantFrom(_, _, _)
RelevantFrom(event, modules, i) ==
  IF i > Len(modules) THEN << >>
  ELSE IF _is_module_relevant(modules[i], event)
    THEN << modules[i] >> \o RelevantFrom(event, modules, i + 1)
    ELSE RelevantFrom(event, modules, i + 1)

\* Faulty variant: the relevant modules are collected last-registered first.
RECURSIVE RelevantReversedFrom(_, _, _)
RelevantReversedFrom(event, modules, i) ==
  IF i < 1 THEN << >>
  ELSE IF _is_module_relevant(modules[i], event)
    THEN << modules[i] >> \o RelevantReversedFrom(event, modules, i - 1)
    ELSE RelevantReversedFrom(event, modules, i - 1)

_get_relevant_modules_reversed(event, modules) ==
  RelevantReversedFrom(event, modules, Len(modules))

_get_relevant_modules(event, modules) == RelevantFrom(event, modules, 1)

(***************************************************************************)
(* Fan-out/gather orchestrator (service.py)                                *)
(***************************************************************************)
\* The mock payload of _generate_mock_module_response, by the keys the
\* synthesizer reads (a confidence is a number of hundredths): 0.85 for every module type, key_insights
\* for the type "insights" only.
_generate_mock_module_response(module) ==
  IF module.module_type = "insights"
    THEN [confidence |-> 85,
          key_insights |-> << "Pattern detected in user behavior",
                              "Opportunity for automation" >>]
    ELSE [confidence |-> 85]

\* ModuleResponse built by _process_with_module.
ModuleResponse(module) ==
  [module_id |-> module.module_id, module_type |-> module.module_type,
   response |-> _generate_mock_module_response(module)]

\* The loop over enumerate(responses) after asyncio.gather: the settled
\* invocations that are not exceptions, in the order of the task list.
RECURSIVE SuccessfulFrom(_, _, _)
SuccessfulFrom(modules, responses, i) ==
  IF i > Len(responses) THEN << >>
  ELSE IF responses[i] # "exception"
    THEN << ModuleResponse(modules[i]) >> \o SuccessfulFrom(modules, responses, i + 1)
    ELSE SuccessfulFrom(modules, responses, i + 1)

\* Faulty variant: the first exception ends the collection.
RECURSIVE SuccessfulUntilFailure(_, _, _)
SuccessfulUntilFailure(modules, responses, i) ==
  IF i > Len(responses) \/ responses[i] = "exception" THEN << >>
  ELSE << ModuleResponse(modules[i]) >> \o SuccessfulUntilFailure(modules, responses, i + 1)

successful_responses_until_failure(modules, responses) ==
  SuccessfulUntilFailure(modules, responses, 1)

successful_responses(modules, responses) == SuccessfulFrom(modules, responses, 1)

(***************************************************************************)
(* Synthesizer (service.py: _generate_core_insights)                       *)
(*                                                                         *)
(* A confidence is a number of hundredths (85 is 0.85), so that sums and   *)
(* averages are exact.                                                     *)
(***************************************************************************)
\* The cap of synthesized_insights, [:5].
synthesized_cap == 5
\* The consensus threshold, 0.7.
consensus_threshold == 70

\* The loop over the responses: all_insights.extend, all_confidences.append.
RECURSIVE AllInsights(_, _)
AllInsights(responses, i) ==
  IF i > Len(responses) THEN << >>
  ELSE (IF "key_insights" \in DOMAIN responses[i].response
          THEN responses[i].response.key_insights ELSE << >>)
       \o AllInsights(responses, i + 1)

RECURSIVE AllConfidences(_, _)
AllConfidences(responses, i) ==
  IF i > Len(responses) THEN << >>
  ELSE (IF "confidence" \in DOMAIN responses[i].response
          THEN << responses[i].response.confidence >> ELSE << >>)
       \o AllConfidences(responses, i + 1)

RECURSIVE Sum(_)
Sum(numbers) == IF numbers = << >> THEN 0 ELSE Head(numbers) + Sum(Tail(numbers))

\* round(total / n, 2) in hundredths: the nearest hundredth, a tie to the
\* even one.
Round2(total, n) ==
  LET q == total \div n
      r == total % n
  IN IF 2 * r > n THEN q + 1
     ELSE IF 2 * r < n THEN q
     ELSE IF q % 2 = 0 THEN q ELSE q + 1

\* list(set(items))[:n]: the iteration order of a set of strings is not
\* fixed (string hashes differ from process to process), so every
\* arrangement of every n of the distinct items is a possible value.
SetPrefixes(items, n) ==
  LET distinct == {items[i] : i \in 1..Len(items)}
      k == IF Cardinality(distinct) < n THEN Cardinality(distinct) ELSE n
  IN { l \in [1..k -> distinct] : \A i, j \in 1..k : i # j => l[i] # l[j] }

\* avg_confidence > 0.7, for avg_confidence = total / n (0 when n = 0).
IsHighConsensus(total, n) ==
  n > 0 /\ total > consensus_threshold * n

\* Faulty variant: duplicates are kept.
SynthesizedInsights_with_duplicates(items) ==
  { SubSeq(items, 1, IF Len(items) < synthesized_cap THEN Len(items) ELSE synthesized_cap) }

SynthesizedInsights(items) == SetPrefixes(items, synthesized_cap)

\* Faulty variant: an empty list is synthesized like any other.
IsEmptyResult_never(responses) == FALSE

\* if not responses
IsEmptyResult(responses) == responses = << >>

\* _generate_core_insights: the values it can return for responses.
_generate_core_insights(responses) ==
  IF IsEmptyResult(responses)
    THEN { [message |-> "No modules processed this event"] }
    ELSE LET all_insights == AllInsights(responses, 1)
             all_confidences == AllConfidences(responses, 1)
             total == Sum(all_confidences)
             n == Len(all_confidences)
         IN { [synthesized_insights |-> insights,
               average_confidence |-> IF n > 0 THEN Round2(total, n) ELSE 0,
               modules_engaged |-> Len(responses),
               consensus_level |-> IF IsHighConsensus(total, n) THEN "high" ELSE "medium",
               processing_time |-> "instant"] :
              insights \in SynthesizedInsights(all_insights) }

(***************************************************************************)
(* Registry (service.py: register_module)                                  *)
(***************************************************************************)
\* registered_modules[registration.module_id] = registration: a dict keeps a
\* key's first insertion position and replaces its value.
RECURSIVE StoreFrom(_, _, _)
StoreFrom(modules, registration, i) ==
  IF i > Len(modules) THEN << registration >>
  ELSE IF modules[i].module_id = registration.module_id
    THEN << registration >> \o SubSeq(modules, i + 1, Len(modules))
    ELSE << modules[i] >> \o StoreFrom(modules, registration, i + 1)

\* Faulty variant: a registration is added even if its id is registered.
StoreRegistration_append(modules, registration) == Append(modules, registration)

StoreRegistration(modules, registration) == StoreFrom(modules, registration, 1)

\* GET /modules: list(core_service.registered_modules.values())
list_modules(modules) == modules

\* get_module_stats.  modules_by_type has one key per member of EventType
\* (the comprehension runs over EventType, not ModuleType), counting the
\* modules whose module_type equals that member; both enums are str enums,
\* compared by value.  active_capabilities is list(set(...)): a list without
\* duplicates in no fixed order, kept as the set of its elements.
get_module_stats(modules) ==
  [total_modules |-> Len(modules),
   modules_by_type |->
     [event_type \in EventKinds |->
        Cardinality({i \in 1..Len(modules) : modules[i].module_type = event_type})],
   active_capabilities |->
     UNION {modules[i].capabilities : i \in 1..Len(modules)}]

RegisteredIds == {registered_modules[i].module_id : i \in 1..Len(registered_modules)}

(***************************************************************************)
(* Event bus (bus.py)                                                      *)
(***************************************************************************)
\* Faulty variant: the oldest entry is never evicted.
AppendHistory_no_eviction(history, event) == Append(history, event)

\* Faulty variant: publish does not record the event.
AppendHistory_not_recorded(history, event) == history

\* Faulty variant: an event that is already in the history is not recorded
\* again.
AppendHistory_deduplicating(history, event) ==
  IF \E i \in 1..Len(history) : history[i] = event
    THEN history
    ELSE Append(history, event)

\* event_history.append(event); pop(0) when longer than max_history.
AppendHistory(history, event) ==
  LET appended == Append(history, event)
  IN IF Len(appended) > max_history THEN Tail(appended) ELSE appended

\* subscribers[event_type].append(callback)
subscribe(table, kind, callback) ==
  [table EXCEPT ![kind] = Append(@, callback)]

\* list.remove(callback): the first entry equal to callback is deleted, the
\* rest keeps its order.
RECURSIVE RemoveFirst(_, _)
RemoveFirst(seq, x) ==
  IF seq = << >> THEN << >>
  ELSE IF Head(seq) = x THEN Tail(seq)
  ELSE << Head(seq) >> \o RemoveFirst(Tail(seq), x)

\* subscribers[event_type].remove(callback).  For a kind without a list the
\* call does nothing; a callback that is not in the list makes remove raise
\* ValueError, which leaves the table as it was.
unsubscribe(table, kind, callback) ==
  [table EXCEPT ![kind] = RemoveFirst(@, callback)]

\* The delivery loop, for callback in self.subscribers[event_type]: the
\* list is read as the loop advances; a kind nobody subscribed has no list.
LoopExhausted(table, kind, idx) == idx > Len(table[kind])

\* Faulty variant: the list is walked from its end.
NextCallback_from_end(table, kind, idx) == table[kind][Len(table[kind]) - idx + 1]

NextCallback(table, kind, idx) == table[kind][idx]

\* initialize(): the hub subscribes _handle_incoming_event for every EventType.
RECURSIVE SubscribeAll(_, _)
SubscribeAll(table, i) ==
  IF i > Len(EventType) THEN table
  ELSE SubscribeAll(subscribe(table, EventType[i], Core), i + 1)

\* EventBus.get_event_stats: computed from the bounded history and the table.
\* (A kind whose list unsubscribe has emptied is reported with 0 by the code
\* and left out of active_subscribers here: the table of the model does not
\* tell an empty list from a missing one.)
CountKind(history, kind) ==
  Cardinality({i \in 1..Len(history) : history[i].event_type = kind})

get_event_stats(history, table) ==
  [total_events |-> Len(history),
   events_by_type |->
     [kind \in {history[i].event_type : i \in 1..Len(history)} |->
        CountKind(history, kind)],
   active_subscribers |->
     [kind \in {k \in DOMAIN table : table[k] # << >>} |-> Len(table[kind])]]

(***************************************************************************)
(* Shared context store (src/shared/context.py)                            *)
(*                                                                         *)
(* A Python dict is a function with a finite domain; a dict whose order is *)
(* read (insight_cache) is the sequence of its items in insertion order.   *)
(* The clock is read once per call of update_from_event.                   *)
(***************************************************************************)
\* dict.get(key, default)
Get(d, key, default) == IF key \in DOMAIN d THEN d[key] ELSE default

\* Python's None.
None == "None"

\* SharedContext.__init__ at clock reading t (user_profiles is never used).
SharedContext(t) ==
  [conversation_history |-> << >>, task_context |-> << >>,
   insight_cache |-> << >>, behavior_patterns |-> << >>, last_updated |-> t]

\* event_type.value.startswith('task_') and startswith('message_')
TaskKinds == {"task_created", "task_updated", "task_completed"}

MessageKinds == {"message_received", "message_sent"}

\* task_context[task_id].update({'last_activity': ..., 'status': ..., **payload}):
\* the dict of a task is created once and from then on changed in place.
_update_task_context(context, event, t) ==
  LET task_id == Get(event.payload, "task_id", "unknown")
      task == Get(context.task_context, task_id, << >>)
      written == event.payload
                   @@ [last_activity |-> t,
                       status |-> Get(event.payload, "status", "unknown")]
  IN [context EXCEPT !.task_context = (task_id :> (written @@ task)) @@ @]

\* Faulty variant: beyond the capacity the entry at the end is dropped.
_update_conversation_context_drop_newest(context, event, t) ==
  LET conversation_entry ==
        [timestamp |-> t, event_type |-> event.event_type,
         source |-> event.source_module,
         content |-> Get(event.payload, "content", ""),
         metadata |-> Get(event.payload, "metadata", << >>)]
      appended == Append(context.conversation_history, conversation_entry)
  IN [context EXCEPT !.conversation_history =
        IF Len(appended) > conversation_capacity
          THEN SubSeq(appended, 1, conversation_capacity)
          ELSE appended]

\* conversation_history.append(entry); pop(0) beyond the capacity.
_update_conversation_context(context, event, t) ==
  LET conversation_entry ==
        [timestamp |-> t, event_type |-> event.event_type,
         source |-> event.source_module,
         content |-> Get(event.payload, "content", ""),
         metadata |-> Get(event.payload, "metadata", << >>)]
      appended == Append(context.conversation_history, conversation_entry)
  IN [context EXCEPT !.conversation_history =
        IF Len(appended) > conversation_capacity THEN Tail(appended) ELSE appended]

\* Faulty variant: counting an activity also empties the insight cache.
_update_user_behavior_dropping_insights(context, event) ==
  LET user_id == Get(event.payload, "user_id", "default")
      activity_type == Get(event.payload, "activity_type", "unknown")
      behavior == Get(context.behavior_patterns, user_id, << >>)
      count == Get(behavior, activity_type, 0)
  IN [context EXCEPT !.behavior_patterns =
                       (user_id :> ((activity_type :> (count + 1)) @@ behavior)) @@ @,
                     !.insight_cache = << >>]

\* behavior_patterns[user_id][activity_type] += 1: the dict of a user is
\* created once and from then on changed in place.
_update_user_behavior(context, event) ==
  LET user_id == Get(event.payload, "user_id", "default")
      activity_type == Get(event.payload, "activity_type", "unknown")
      behavior == Get(context.behavior_patterns, user_id, << >>)
      count == Get(behavior, activity_type, 0)
  IN [context EXCEPT !.behavior_patterns =
        (user_id :> ((activity_type :> (count + 1)) @@ behavior)) @@ @]

\* insight_cache[key] = entry keeps the position of a key already present.
RECURSIVE PutInsight(_, _, _)
PutInsight(cache, entry, i) ==
  IF i > Len(cache) THEN Append(cache, entry)
  ELSE IF cache[i].key = entry.key
    THEN [cache EXCEPT ![i] = entry]
    ELSE PutInsight(cache, entry, i + 1)

\* Faulty variant: an entry that is exactly one hour old is kept.
IsFresh_inclusive(timestamp, t) == timestamp >= t - one_hour

\* v['timestamp'] > cutoff_time, with cutoff_time one hour before t.
IsFresh(timestamp, t) == timestamp > t - one_hour

\* The entry is stored under f"{source_module}_{timestamp}", then the cache
\* is rebuilt from the entries younger than one hour.
_update_insight_cache(context, event, t) ==
  LET entry == [key |-> << event.source_module, t >>,
                insight |-> Get(event.payload, "insight", << >>),
                timestamp |-> t, source_module |-> event.source_module]
      Fresh(v) == IsFresh(v.timestamp, t)
  IN [context EXCEPT !.insight_cache =
        SelectSeq(PutInsight(@, entry, 1), Fresh)]

\* SharedContext.update_from_event at clock reading t.
update_from_event(context, event, t) ==
  LET stamped == [context EXCEPT !.last_updated = t]
  IN IF event.event_type \in TaskKinds
       THEN _update_task_context(stamped, event, t)
     ELSE IF event.event_type \in MessageKinds
       THEN _update_conversation_context(stamped, event, t)
     ELSE IF event.event_type = "user_activity"
       THEN _update_user_behavior(stamped, event)
     ELSE IF event.event_type = "insight_generated"
       THEN _update_insight_cache(stamped, event, t)
     ELSE stamped

\* Faulty variant: seq[:n]
LastN_first(seq, n) == SubSeq(seq, 1, IF Len(seq) > n THEN n ELSE Len(seq))

\* seq[-n:]
LastN(seq, n) == SubSeq(seq, IF Len(seq) > n THEN Len(seq) - n + 1 ELSE 1, Len(seq))

\* SharedContext.get_relevant_context.  The slices are new lists of entries
\* that are never changed after they were built.  The values of active_tasks
\* and the value of user_behavior are the store's own dict objects, not
\* copies: the returned value holds them as references (the view they belong
\* to and their key), read through the store whenever the holder looks.
get_relevant_context(context, event) ==
  LET returned ==
        [recent_conversations |-> LastN(context.conversation_history, recent_conversations),
         active_tasks |->
           [k \in { id \in DOMAIN context.task_context :
                      Get(context.task_context[id], "status", None)
                        \in {"pending", "in_progress"} }
              |-> [view |-> "task_context", key |-> k]],
         recent_insights |-> LastN(context.insight_cache, recent_insights)]
      user_id == Get(event.payload, "user_id", None)
  IN IF user_id \notin {None, ""} /\ user_id \in DOMAIN context.behavior_patterns
       THEN ("user_behavior" :> [view |-> "behavior_patterns", key |-> user_id])
              @@ returned
       ELSE returned

\* What the holder of a returned relevant_context reads in it when the store
\* is in state context.
Deref(context, ref) == context[ref.view][ref.key]

Read(returned, context) ==
  [k \in DOMAIN returned |->
     IF k = "active_tasks"
       THEN [id \in DOMAIN returned.active_tasks |->
               Deref(context, returned.active_tasks[id])]
     ELSE IF k = "user_behavior"
       THEN Deref(context, returned.user_behavior)
     ELSE returned[k]]

(***************************************************************************)
(* Coroutine frames                                                        *)
(***************************************************************************)
\* One record shape for every coroutine; a frame uses the fields of its op:
\*   "publish"   event, idx (position in the callback list), called (the
\*               callbacks awaited so far), raised (positions whose callback
\*               raised into the except clause), steady (the callbacks that
\*               were subscribed once for the event's kind when publish was
\*               called and that no subscribe or unsubscribe has named since)
\*   "handler"   h (the callback), event, pc, and for the hub's handler the
\*               locals relevant_modules, responses (gather's result list),
\*               module_responses and response_event
\*   "register"  h (the module object registering, "api" for the endpoint),
\*               registration
\*   "create_task"  TaskModule.create_task: event is the event it built
\*   "publish_twice"  a client that publishes event two times in a row: pc
\*               tells the first publish from the second
Frame(op, h, event) ==
  [op |-> op, h |-> h, event |-> event, pc |-> "start", idx |-> 1,
   called |-> << >>, raised |-> {}, relevant_modules |-> << >>,
   responses |-> << >>, module_responses |-> << >>,
   response_event |-> NoEvent, registration |-> NoRegistration, steady |-> {}]

Top(t) == stack[t][Len(stack[t])]

Pop(s) == SubSeq(s, 1, Len(s) - 1)

SetTop(s, f) == [s EXCEPT ![Len(s)] = f]

Idle(t) == stack[t] = << >>

\* The interpreter refuses the nested calls of a frame this deep.
Overflow(t) == Len(stack[t]) >= RecursionLimit

\* Faulty variant: an exception of a callback leaves publish as well.
BackToPublish_propagating(s, didRaise) ==
  IF didRaise
    THEN SubSeq(s, 1, Len(s) - 2)
    ELSE LET below == SubSeq(s, 1, Len(s) - 1)
             p == below[Len(below)]
         IN [below EXCEPT ![Len(below)] = [p EXCEPT !.idx = @ + 1]]

\* A callback returns to (or raises into) the publish loop that awaited it:
\* the loop goes on with the next callback.
BackToPublish(s, didRaise) ==
  LET below == Pop(s)
      p == below[Len(below)]
  IN SetTop(below, [p EXCEPT !.idx = @ + 1,
                             !.raised = IF didRaise THEN @ \cup {p.idx} ELSE @])

\* A call of publish(event) by the coroutine chain s of task t: the history
\* is updated at once, the delivery loop is the new frame.
SubscribedOnce(table, kind) ==
  {h \in {table[kind][i] : i \in 1..Len(table[kind])} :
     Cardinality({i \in 1..Len(table[kind]) : table[kind][i] = h}) = 1}

CallPublish(t, s, event) ==
  /\ event_history' = AppendHistory(event_history, event)
  /\ stack' = [stack EXCEPT ![t] =
       Append(s, [Frame("publish", "", event) EXCEPT
                    !.steady = SubscribedOnce(subscribers, event.event_type)])]

(***************************************************************************)
(* Initial state: main.py has constructed the bus, the core service and    *)
(* the three module objects; the hub is not initialized yet.               *)
(***************************************************************************)
Constructed ==
  /\ subscribers = ConstructedSubscribers
  /\ event_history = << >>
  /\ registered_modules = << >>
  /\ event_handlers = {}
  /\ module_id = [o \in Owners |-> NoneId]
  /\ stack = [t \in Tasks |-> << >>]
  /\ running = 0
  /\ nextId = 1
  /\ shared_context = SharedContext(0)
  /\ now = 0
  /\ relevant_context = << >>

Init ==
  /\ Constructed
  /\ call = << >>
  /\ result = << >>

\* A new entry-point coroutine starts when the loop is free; it takes the
\* first idle task (tasks are interchangeable).
CanStart(t) ==
  /\ Idle(t)
  /\ running = 0
  /\ \A u \in 1..(t - 1) : ~Idle(u)

\* main.py's lifespan awaits initialize() before anything else is called.
Initialized == event_handlers # {}

(***************************************************************************)
(* Entry points                                                            *)
(***************************************************************************)
\* CoreIntelligenceService.initialize (called once, by main.py's lifespan):
\* no await inside, so it runs in one piece.
Initialize(t) ==
  /\ CanStart(t)
  /\ event_handlers = {}
  /\ event_handlers' = { "task_created", "message_received", "insight_generated",
                         "user_activity", "module_registered" }
  /\ subscribers' = SubscribeAll(subscribers, 1)
  /\ UNCHANGED << event_history, registered_modules, module_id, stack, running,
                  nextId,
                  shared_context, now, callVars >>

\* A client of the bus publishes a new event of any kind from any source
\* (create_task and send_message are the cases task_created/message_received
\* with the module's own id as source).
ExternalPublish(t, kind, source) ==
  /\ CanStart(t)
  /\ Initialized
  /\ nextId <= MaxEvents
  /\ CallPublish(t, << >>, IntelligenceEvent(nextId, kind, source))
  /\ nextId' = nextId + 1
  /\ running' = t
  /\ UNCHANGED << subscribers, registered_modules, event_handlers, module_id,
                  shared_context, now, callVars >>

\* TaskModule.create_task (POST /simulate/task-creation), up to its await of
\* publish: the task gets a fresh uuid4 as task_id (the event's id stands
\* for it) and is stored in tasks_db, which nothing modelled here reads.
\* Before the module has registered, module_id is None and building the
\* event fails its validation: nothing is published.
TaskCreated(id) ==
  [IntelligenceEvent(id, "task_created", module_id["task"]) EXCEPT
     !.payload = [task_id |-> ToString(id), status |-> "created", user_id |-> "api_user_123"]]

CreateTask(t) ==
  /\ CanStart(t)
  /\ Initialized
  /\ nextId <= MaxEvents
  /\ module_id["task"] # NoneId
  /\ CallPublish(t, << Frame("create_task", "task", TaskCreated(nextId)) >>,
                 TaskCreated(nextId))
  /\ nextId' = nextId + 1
  /\ running' = t
  /\ UNCHANGED << subscribers, registered_modules, event_handlers, module_id,
                  shared_context, now, callVars >>

\* publish has returned: create_task returns the acknowledgement (task_id,
\* status "created", the event's id) to its caller.
CreateTaskReturn(t) ==
  /\ running = t
  /\ ~Idle(t)
  /\ Top(t).op = "create_task"
  /\ stack' = [stack EXCEPT ![t] = Pop(@)]
  /\ running' = 0
  /\ UNCHANGED << subscribers, event_history, registered_modules, event_handlers,
                  module_id, nextId, shared_context, now, callVars >>

\* Faulty variant: the event does not carry the capabilities.
ModuleRegistered_without_capabilities(id, registration) ==
  [IntelligenceEvent(id, "module_registered", registration.module_id) EXCEPT
     !.payload = [module_name |-> registration.name,
                  module_type |-> registration.module_type]]

\* The event register_module builds from the registration.
ModuleRegistered(id, registration) ==
  [IntelligenceEvent(id, "module_registered", registration.module_id) EXCEPT
     !.payload = [module_name |-> registration.name,
                  module_type |-> registration.module_type,
                  capabilities |-> registration.capabilities]]

\* register_module(registration), up to its await of publish.  caller is the
\* module object whose register() made the call, or "api" for the endpoint.
RegisterModule(t, caller, registration) ==
  /\ CanStart(t)
  /\ Initialized
  /\ nextId <= MaxEvents
  /\ registered_modules' = StoreRegistration(registered_modules, registration)
  /\ CallPublish(t,
       << [Frame("register", caller, NoEvent) EXCEPT !.registration = registration] >>,
       ModuleRegistered(nextId, registration))
  /\ nextId' = nextId + 1
  /\ running' = t
  /\ UNCHANGED << subscribers, event_handlers, module_id,
                  shared_context, now, callVars >>

\* POST /modules/register
RegisterEndpoint(t) ==
  \E registration \in ClientRegistrations : RegisterModule(t, "api", registration)

\* TaskModule.register, ChatModule.register, InsightModule.register: a
\* registration with a fresh uuid4 (the least id not in use: which one is
\* immaterial).
ModuleRegister(t) ==
  \E owner \in Owners, id \in ModuleIds \ RegisteredIds :
    /\ \A other \in ModuleIds \ RegisteredIds : id <= other
    /\ RegisterModule(t, owner, OwnRegistration(owner, id))

\* register_module returns the registration; a module's register() then
\* stores its id.
RegisterReturn(t) ==
  /\ running = t
  /\ ~Idle(t)
  /\ Top(t).op = "register"
  /\ stack' = [stack EXCEPT ![t] = Pop(@)]
  /\ module_id' = IF Top(t).h \in Owners
                    THEN [module_id EXCEPT ![Top(t).h] = Top(t).registration.module_id]
                    ELSE module_id
  /\ running' = 0
  /\ UNCHANGED << subscribers, event_history, registered_modules, event_handlers,
                  nextId,
                  shared_context, now, callVars >>

(***************************************************************************)
(* EventBus.publish: the delivery loop                                     *)
(***************************************************************************)
\* await callback(event) for the next callback of the live list.
PublishDeliver(t) ==
  /\ running = t
  /\ ~Idle(t)
  /\ Top(t).op = "publish"
  /\ ~LoopExhausted(subscribers, Top(t).event.event_type, Top(t).idx)
  /\ LET p == Top(t)
         callback == NextCallback(subscribers, p.event.event_type, p.idx)
     IN stack' = [stack EXCEPT ![t] =
          Append(SetTop(@, [p EXCEPT !.called = Append(@, callback)]),
                 Frame("handler", callback, p.event))]
  /\ UNCHANGED << subscribers, event_history, registered_modules, event_handlers,
                  module_id, running, nextId,
                  shared_context, now, callVars >>

\* The loop is exhausted: publish returns to its caller.
PublishReturn(t) ==
  /\ running = t
  /\ ~Idle(t)
  /\ Top(t).op = "publish"
  /\ LoopExhausted(subscribers, Top(t).event.event_type, Top(t).idx)
  /\ stack' = [stack EXCEPT ![t] = Pop(@)]
  /\ running' = IF Len(stack[t]) = 1 THEN 0 ELSE t
  /\ UNCHANGED << subscribers, event_history, registered_modules, event_handlers,
                  module_id, nextId,
                  shared_context, now, callVars >>

(***************************************************************************)
(* The module callbacks (task_module.py, chat_module.py, insight_module.py)*)
(***************************************************************************)
InModuleHandler(t) ==
  /\ ~Idle(t)
  /\ Top(t).op = "handler"
  /\ Top(t).h # Core

\* The callback has nothing to publish for this event.
NothingToEmit(t) ==
  LET m == ModuleHandlers[Top(t).h]
  IN \/ m.emits = "none"
     \/ m.skips_own /\ Top(t).event.source_module = module_id[m.owner]

\* The callback is about to build and publish its event: straight from its
\* start, or when its asyncio.sleep is over.
AboutToEmit(t) ==
  /\ InModuleHandler(t)
  /\ \/ /\ running = t
        /\ Top(t).pc = "start"
        /\ ~NothingToEmit(t)
        /\ ~ModuleHandlers[Top(t).h].sleeps
     \/ /\ running = 0
        /\ Top(t).pc = "sleeping"

\* await asyncio.sleep(...): the task leaves the loop to the others.
ModuleHandlerSleep(t) ==
  /\ running = t
  /\ InModuleHandler(t)
  /\ Top(t).pc = "start"
  /\ ~NothingToEmit(t)
  /\ ModuleHandlers[Top(t).h].sleeps
  /\ stack' = [stack EXCEPT ![t] = SetTop(@, [Top(t) EXCEPT !.pc = "sleeping"])]
  /\ running' = 0
  /\ UNCHANGED << subscribers, event_history, registered_modules, event_handlers,
                  module_id, nextId,
                  shared_context, now, callVars >>

\* IntelligenceEvent(source_module=self.module_id, ...) and await publish.
ModuleHandlerEmit(t) ==
  /\ AboutToEmit(t)
  /\ module_id[ModuleHandlers[Top(t).h].owner] # NoneId
  /\ ~Overflow(t)
  /\ CallPublish(t, SetTop(stack[t], [Top(t) EXCEPT !.pc = "published"]),
       IntelligenceEvent(nextId, ModuleHandlers[Top(t).h].emits,
                         module_id[ModuleHandlers[Top(t).h].owner]))
  /\ nextId' = nextId + 1
  /\ running' = t
  /\ UNCHANGED << subscribers, registered_modules, event_handlers, module_id,
                  shared_context, now, callVars >>

\* The callback raises: source_module=None fails the event's validation when
\* the module has not registered (or the interpreter is out of stack).
ModuleHandlerRaise(t) ==
  /\ AboutToEmit(t)
  /\ \/ module_id[ModuleHandlers[Top(t).h].owner] = NoneId
     \/ Overflow(t)
  /\ stack' = [stack EXCEPT ![t] = BackToPublish(@, TRUE)]
  /\ running' = t
  /\ UNCHANGED << subscribers, event_history, registered_modules, event_handlers,
                  module_id, nextId,
                  shared_context, now, callVars >>

\* The callback returns.
ModuleHandlerReturn(t) ==
  /\ running = t
  /\ InModuleHandler(t)
  /\ \/ Top(t).pc = "published"
     \/ Top(t).pc = "start" /\ NothingToEmit(t)
  /\ stack' = [stack EXCEPT ![t] = BackToPublish(@, FALSE)]
  /\ UNCHANGED << subscribers, event_history, registered_modules, event_handlers,
                  module_id, running, nextId,
                  shared_context, now, callVars >>

(***************************************************************************)
(* CoreIntelligenceService._handle_incoming_event                          *)
(***************************************************************************)
\* The handler first passes the event to shared_context.update_from_event,
\* then routes it; it does not suspend in between.
\* Faulty variant: the event is applied to the store twice.
UpdateContext_twice(t) ==
  shared_context' =
    update_from_event(update_from_event(shared_context, Top(t).event, now),
                      Top(t).event, now)

UpdateContext(t) ==
  shared_context' = update_from_event(shared_context, Top(t).event, now)

InHubHandler(t) ==
  /\ ~Idle(t)
  /\ Top(t).op = "handler"
  /\ Top(t).h = Core

\* The response event the handler builds from process_event's result.
ResponseEvent(id, event, module_responses) ==
  [IntelligenceEvent(id, "intelligence_response", event.source_module)
     EXCEPT !.request_id = event.event_id, !.module_responses = module_responses]

\* The handler's calls do not fit the interpreter's stack: RecursionError.
\* It is raised in process_event or in building the response, whose chains
\* of calls are deeper than update_from_event's (one level deeper than the
\* handler, less than the two levels the handler itself needed).
HubOverflow(t) ==
  /\ running = t
  /\ InHubHandler(t)
  /\ Top(t).pc = "start"
  /\ Overflow(t)
  /\ UpdateContext(t)
  /\ stack' = [stack EXCEPT ![t] = BackToPublish(@, TRUE)]
  /\ UNCHANGED << subscribers, event_history, registered_modules, event_handlers,
                  module_id, running, nextId, now, callVars >>

\* Build the response from module_responses and publish it.
Respond(t, module_responses) ==
  LET response_event == ResponseEvent(nextId, Top(t).event, module_responses)
  IN /\ CallPublish(t,
          SetTop(stack[t], [Top(t) EXCEPT !.pc = "published",
                                          !.module_responses = module_responses,
                                          !.response_event = response_event]),
          response_event)
     /\ nextId' = nextId + 1
     /\ running' = t

\* No module is relevant: gather() of nothing is done at once, the handler
\* goes on to publish the response without suspending.
HubRespondDirect(t) ==
  /\ running = t
  /\ InHubHandler(t)
  /\ Top(t).pc = "start"
  /\ ~Overflow(t)
  /\ UpdateContext(t)
  /\ _get_relevant_modules(Top(t).event, registered_modules) = << >>
  /\ Respond(t, successful_responses(<< >>, << >>))
  /\ UNCHANGED << subscribers, registered_modules, event_handlers, module_id,
                  now, callVars >>

\* Some modules are relevant: one _process_with_module per module is handed
\* to asyncio.gather and the handler suspends until all have settled.
HubFanOut(t) ==
  /\ running = t
  /\ InHubHandler(t)
  /\ Top(t).pc = "start"
  /\ ~Overflow(t)
  /\ UpdateContext(t)
  /\ LET relevant == _get_relevant_modules(Top(t).event, registered_modules)
     IN /\ relevant # << >>
        /\ stack' = [stack EXCEPT ![t] =
             SetTop(@, [Top(t) EXCEPT !.pc = "gather",
                                      !.relevant_modules = relevant,
                                      !.responses = [i \in 1..Len(relevant) |-> "pending"]])]
  /\ running' = 0
  /\ UNCHANGED << subscribers, event_history, registered_modules, event_handlers,
                  module_id, nextId, now, callVars >>

\* One invocation settles after its sleep: with a ModuleResponse, or with an
\* exception that gather(return_exceptions=True) stores in its place.
\* Faulty variant: a failed invocation makes the orchestrator start the
\* other invocations over (a retry of the fan-out).
Settle_retrying(responses, i, outcome) ==
  [k \in 1..Len(responses) |->
     IF k = i THEN outcome
     ELSE IF outcome = "exception" THEN "pending" ELSE responses[k]]

Settle(responses, i, outcome) == [responses EXCEPT ![i] = outcome]

ModuleSettles(t, i, outcome) ==
  /\ running = 0
  /\ InHubHandler(t)
  /\ Top(t).pc = "gather"
  /\ i \in 1..Len(Top(t).responses)
  /\ Top(t).responses[i] = "pending"
  /\ stack' = [stack EXCEPT ![t] =
       SetTop(@, [Top(t) EXCEPT !.responses = Settle(@, i, outcome)])]
  /\ UNCHANGED << subscribers, event_history, registered_modules, event_handlers,
                  module_id, running, nextId,
                  shared_context, now, callVars >>

\* All invocations have settled: the handler resumes, filters the successes
\* and publishes the response.
HubGathered(t) ==
  /\ running = 0
  /\ InHubHandler(t)
  /\ Top(t).pc = "gather"
  /\ \A i \in 1..Len(Top(t).responses) : Top(t).responses[i] # "pending"
  /\ Respond(t, successful_responses(Top(t).relevant_modules, Top(t).responses))
  /\ UNCHANGED << subscribers, registered_modules, event_handlers, module_id,
                  shared_context, now, callVars >>

\* The handler returns after its publish.
HubReturn(t) ==
  /\ running = t
  /\ InHubHandler(t)
  /\ Top(t).pc = "published"
  /\ stack' = [stack EXCEPT ![t] = BackToPublish(@, FALSE)]
  /\ UNCHANGED << subscribers, event_history, registered_modules, event_handlers,
                  module_id, running, nextId,
                  shared_context, now, callVars >>

(***************************************************************************)
(* Specification                                                           *)
(***************************************************************************)
Next ==
  \E t \in Tasks :
    \/ Initialize(t)
    \/ \E kind \in ExternalKinds, source \in ModuleIds \cup {ExternalId} :
         ExternalPublish(t, kind, source)
    \/ RegisterEndpoint(t)
    \/ ModuleRegister(t)
    \/ RegisterReturn(t)
    \/ CreateTask(t)
    \/ CreateTaskReturn(t)
    \/ PublishDeliver(t)
    \/ PublishReturn(t)
    \/ ModuleHandlerSleep(t)
    \/ ModuleHandlerEmit(t)
    \/ ModuleHandlerRaise(t)
    \/ ModuleHandlerReturn(t)
    \/ HubOverflow(t)
    \/ HubRespondDirect(t)
    \/ HubFanOut(t)
    \/ \E i \in 1..MaxModuleIds, outcome \in {"response", "exception"} :
         ModuleSettles(t, i, outcome)
    \/ HubGathered(t)
    \/ HubReturn(t)

Spec == Init /\ [][Next]_vars

\* The steps the event loop takes for task t by itself: everything that is
\* ready to run is run.  The start of a new request is the client's doing, and
\* the settling of an invocation is the module's (the stand-in sleep and mock
\* of _process_with_module): the orchestrator awaits it with a bare gather,
\* without asyncio.wait_for or any other deadline.
Scheduled(t) ==
  \/ RegisterReturn(t)
  \/ CreateTaskReturn(t)
  \/ PublishDeliver(t)
  \/ PublishReturn(t)
  \/ ModuleHandlerSleep(t)
  \/ ModuleHandlerEmit(t)
  \/ ModuleHandlerRaise(t)
  \/ ModuleHandlerReturn(t)
  \/ HubOverflow(t)
  \/ HubRespondDirect(t)
  \/ HubFanOut(t)
  \/ HubGathered(t)
  \/ HubReturn(t)

LiveSpec == Spec /\ \A t \in Tasks : WF_vars(Scheduled(t))

(***************************************************************************)
(* process_event on its own: a task_created event processed against a      *)
(* registry of three modules with pairwise disjoint capability lists, one  *)
(* of which declares task_management.                                      *)
(***************************************************************************)
ScenarioIds == {1, 2, 3}

ScenarioSources == ScenarioIds \cup {4}

ScenarioCapabilities ==
  {"task_management", "automation", "analysis", "chat", "insights"}

\* The module types of the three example modules, by id.
ScenarioTypes == << "tasks", "chat", "insights" >>

ScenarioRegistries ==
  { [i \in ScenarioIds |-> ModuleRegistration(i, ScenarioTypes[i], caps[i])] :
      caps \in { c \in [ScenarioIds -> (SUBSET ScenarioCapabilities) \ {{}}] :
                   /\ \A i, j \in ScenarioIds : i # j => c[i] \cap c[j] = {}
                   /\ \E i \in ScenarioIds : "task_management" \in c[i] } }

InitProcess ==
  /\ subscribers = ConstructedSubscribers
  /\ event_history = << >>
  /\ registered_modules \in ScenarioRegistries
  /\ event_handlers = {}
  /\ module_id = [o \in Owners |-> NoneId]
  /\ stack = [t \in Tasks |-> << >>]
  /\ running = 0
  /\ nextId = 1
  /\ shared_context = SharedContext(0)
  /\ now = 0
  /\ relevant_context = << >>
  /\ call \in { [event |-> IntelligenceEvent(1, "task_created", source)] :
                   source \in ScenarioSources }
  /\ result = << >>

\* IntelligenceResponse, with the list asyncio.gather returned kept beside it.
IntelligenceResponse(event, gathered, module_responses, core_insights) ==
  [request_id |-> event.event_id, original_event |-> event,
   module_responses |-> module_responses, core_insights |-> core_insights,
   gathered |-> gathered]

\* response = await self.process_event(event): route, fan out, collect the
\* invocations that did not fail, synthesize.
ProcessEvent ==
  /\ result = << >>
  /\ LET relevant_modules == _get_relevant_modules(call.event, registered_modules)
     IN \E gathered \in [1..Len(relevant_modules) -> {"response", "exception"}] :
          LET module_responses == successful_responses(relevant_modules, gathered)
          IN \E core_insights \in _generate_core_insights(module_responses) :
               result' = IntelligenceResponse(call.event, gathered, module_responses,
                                              core_insights)
  /\ UNCHANGED << hubVars, shared_context, now, relevant_context, call >>

NextProcess == ProcessEvent

ProcessSpec == InitProcess /\ [][NextProcess]_vars

(***************************************************************************)
(* The synthesizer on its own: _generate_core_insights called with any list *)
(* of module responses.                                                    *)
(***************************************************************************)
\* Length of the list passed to the synthesizer.
MaxResponses == 2

\* The response dicts of the ModuleResponses passed in: with or without
\* key_insights (with duplicates inside a list and across lists, and more
\* distinct insights than the cap), with or without a confidence.
InsightLists ==
  { << "a", "b" >>, << "b", "c", "c" >>, << "a", "c", "d", "e", "f" >> }

\* 0.5, 0.7 and 0.9: for lists of these the float sum, average and rounding
\* of the code give the exact values computed here.
Confidences == {50, 70, 90}

ResponseDicts ==
  { << >> }
    \cup { [key_insights |-> l] : l \in InsightLists }
    \cup { [confidence |-> c] : c \in Confidences }
    \cup { [key_insights |-> l, confidence |-> c] :
             l \in InsightLists, c \in Confidences }

SynthesizerInputs ==
  UNION { [1..n -> { [module_id |-> 1, response |-> d] : d \in ResponseDicts }] :
          n \in 0..MaxResponses }

InitSynthesizer ==
  /\ Constructed
  /\ call \in { [responses |-> responses] : responses \in SynthesizerInputs }
  /\ result = << >>

\* core_insights = await self._generate_core_insights(event, responses)
GenerateCoreInsights ==
  /\ result = << >>
  /\ result' \in _generate_core_insights(call.responses)
  /\ UNCHANGED << hubVars, shared_context, now, relevant_context, call >>

NextSynthesizer == GenerateCoreInsights

SynthesizerSpec == InitSynthesizer /\ [][NextSynthesizer]_vars

(***************************************************************************)
(* The shared context store on its own: the calls the hub makes on it      *)
(* (update_from_event at ingestion, get_relevant_context for an            *)
(* invocation), with events of every kind and payload, in any order and    *)
(* with the clock advancing between them.                                  *)
(***************************************************************************)
\* Upper limit of a behaviour counter in ContextSpec.
MaxCount == 2

Payloads(kind) ==
  IF kind \in TaskKinds
    THEN { [task_id |-> "t1", status |-> st] : st \in {"pending", "completed"} }
  ELSE IF kind \in MessageKinds THEN { [content |-> "hello"] }
  ELSE IF kind = "user_activity"
    THEN { << >>, [user_id |-> "u1", activity_type |-> "login"],
           [user_id |-> "", activity_type |-> "login"] }
  ELSE { << >> }

\* The events applied to the store and passed to get_relevant_context.
ContextEvents ==
  UNION { { [IntelligenceEvent(0, kind, 1) EXCEPT !.payload = payload] :
              payload \in Payloads(kind) } :
          kind \in { "task_created", "task_updated", "message_received",
                     "user_activity", "insight_generated", "module_registered",
                     "intelligence_response" } }

\* shared_context.update_from_event(event)
UpdateFromEvent(event) ==
  /\ event.event_type = "user_activity" =>
       \A u \in DOMAIN shared_context.behavior_patterns :
         \A a \in DOMAIN shared_context.behavior_patterns[u] :
           shared_context.behavior_patterns[u][a] < MaxCount
  /\ shared_context' = update_from_event(shared_context, event, now)
  /\ UNCHANGED << hubVars, now, callVars >>

\* relevant_context = shared_context.get_relevant_context(event)
GetRelevantContext(event) ==
  /\ relevant_context' = get_relevant_context(shared_context, event)
  /\ UNCHANGED << hubVars, shared_context, now, call, result >>

\* Time passes.
Tick ==
  /\ now < MaxTime
  /\ now' = now + 1
  /\ UNCHANGED << hubVars, shared_context, callVars >>

NextContext ==
  \/ \E event \in ContextEvents : UpdateFromEvent(event)
  \/ \E event \in ContextEvents : GetRelevantContext(event)
  \/ Tick

ContextSpec == Init /\ [][NextContext]_vars

(***************************************************************************)
(* The insight cache on its own: insight_generated events of several       *)
(* source modules and insights applied to the store, in any order and      *)
(* with the clock advancing between them or standing still.                *)
(***************************************************************************)
Insights == { "i1", "i2" }

InsightEvents ==
  { [IntelligenceEvent(0, "insight_generated", source)
       EXCEPT !.payload = [insight |-> insight]] :
    source \in ModuleIds, insight \in Insights }

NextInsight ==
  \/ \E event \in InsightEvents : UpdateFromEvent(event)
  \/ Tick

InsightSpec == Init /\ [][NextInsight]_vars

(***************************************************************************)
(* The event bus on its own: an EventBus() whose clients subscribe and     *)
(* unsubscribe callbacks of their own and publish events, some of them     *)
(* more than once.  A client's callback returns, or first awaits something,*)
(* or first calls subscribe or unsubscribe itself.                         *)
(***************************************************************************)
\* Upper limit of the number of entries in the subscriber table in BusSpec.
MaxSubscriptions == 3

\* Upper limit of the number of publish calls in flight in BusSpec.
MaxPublishers == 1

BusKinds == {"task_created", "message_received"}

\* The clients' callbacks.
BusHandlers == {"h1", "h2"}

\* The events the clients publish: each may be published again.
BusEvents ==
  { IntelligenceEvent(1, "task_created", ExternalId),
    IntelligenceEvent(2, "message_received", ExternalId) }

Subscriptions(table) == Len(table["task_created"]) + Len(table["message_received"])

\* EventBus.__init__: no subscriber, no history.
InitBus ==
  /\ subscribers = [k \in DOMAIN ConstructedSubscribers |-> << >>]
  /\ event_history = << >>
  /\ registered_modules = << >>
  /\ event_handlers = {}
  /\ module_id = [o \in Owners |-> NoneId]
  /\ stack = [t \in Tasks |-> << >>]
  /\ running = 0
  /\ nextId = 1
  /\ shared_context = SharedContext(0)
  /\ now = 0
  /\ relevant_context = << >>
  /\ call = << >>
  /\ result = << >>

\* A subscribe or unsubscribe naming callback h for kind: h is no longer one
\* of the steady callbacks of the deliveries of that kind in flight.
Named(s, kind, h) ==
  [i \in 1..Len(s) |->
     IF s[i].op = "publish" /\ s[i].event.event_type = kind
       THEN [s[i] EXCEPT !.steady = @ \ {h}]
       ELSE s[i]]

\* event_bus.subscribe(kind, h), called by a task that is not inside a
\* delivery (the call does not suspend).
Subscribe(kind, h) ==
  /\ running = 0
  /\ Subscriptions(subscribers) < MaxSubscriptions
  /\ subscribers' = subscribe(subscribers, kind, h)
  /\ stack' = [t \in Tasks |-> Named(stack[t], kind, h)]
  /\ UNCHANGED << event_history, registered_modules, event_handlers, module_id,
                  running, nextId, shared_context, now, callVars >>

\* event_bus.unsubscribe(kind, h), called likewise.
Unsubscribe(kind, h) ==
  /\ running = 0
  /\ subscribers' = unsubscribe(subscribers, kind, h)
  /\ stack' = [t \in Tasks |-> Named(stack[t], kind, h)]
  /\ UNCHANGED << event_history, registered_modules, event_handlers, module_id,
                  running, nextId, shared_context, now, callVars >>

\* event_bus.subscribe(kind, h) and right after it event_bus.unsubscribe(kind,
\* h): neither call suspends, so nothing runs in between.
SubscribeUnsubscribe(kind, h) ==
  /\ running = 0
  /\ Subscriptions(subscribers) < MaxSubscriptions
  /\ subscribers' = unsubscribe(subscribe(subscribers, kind, h), kind, h)
  /\ stack' = [t \in Tasks |-> Named(stack[t], kind, h)]
  /\ UNCHANGED << event_history, registered_modules, event_handlers, module_id,
                  running, nextId, shared_context, now, callVars >>

\* await event_bus.publish(event) by a client.  (A client of PublishTwice
\* that is between its reading of the statistics and the return of its
\* second publish is no longer alone on the bus.)
ClientPublish(t, event) ==
  /\ CanStart(t)
  /\ CallPublish(t, << >>, event)
  /\ running' = t
  /\ call' = IF call = << >> THEN call ELSE [call EXCEPT !.alone = FALSE]
  /\ UNCHANGED << subscribers, registered_modules, event_handlers, module_id,
                  nextId, shared_context, now, relevant_context, result >>

\* The same, as long as fewer than MaxPublishers publish calls are in flight.
BoundedPublish(t, event) ==
  /\ Cardinality({u \in Tasks : ~Idle(u)}) < MaxPublishers
  /\ ClientPublish(t, event)

\* A client reads the statistics, publishes an event and, when that publish
\* has returned, publishes the same event object again.
PublishTwice(t, event) ==
  /\ CanStart(t)
  /\ call = << >>
  /\ call' = [event |-> event, alone |-> TRUE,
              stats |-> get_event_stats(event_history, subscribers)]
  /\ CallPublish(t, << [Frame("publish_twice", "", event) EXCEPT !.pc = "first"] >>,
                 event)
  /\ running' = t
  /\ UNCHANGED << subscribers, registered_modules, event_handlers, module_id,
                  nextId, shared_context, now, relevant_context, result >>

PublishAgain(t) ==
  /\ running = t
  /\ ~Idle(t)
  /\ Top(t).op = "publish_twice"
  /\ Top(t).pc = "first"
  /\ CallPublish(t, SetTop(stack[t], [Top(t) EXCEPT !.pc = "second"]), Top(t).event)
  /\ UNCHANGED << subscribers, registered_modules, event_handlers, module_id,
                  running, nextId, shared_context, now, callVars >>

\* Both publishes have returned: the client is done.
PublishTwiceReturn(t) ==
  /\ running = t
  /\ ~Idle(t)
  /\ Top(t).op = "publish_twice"
  /\ Top(t).pc = "second"
  /\ stack' = [stack EXCEPT ![t] = Pop(@)]
  /\ running' = 0
  /\ call' = << >>
  /\ UNCHANGED << subscribers, event_history, registered_modules, event_handlers,
                  module_id, nextId, shared_context, now, relevant_context, result >>

InClientHandler(t) ==
  /\ ~Idle(t)
  /\ Top(t).op = "handler"
  /\ Top(t).h \in BusHandlers

\* The callback calls subscribe(kind, h) while the event is being delivered.
ClientHandlerSubscribes(t, kind, h) ==
  /\ running = t
  /\ InClientHandler(t)
  /\ Top(t).pc = "start"
  /\ Subscriptions(subscribers) < MaxSubscriptions
  /\ subscribers' = subscribe(subscribers, kind, h)
  /\ stack' = [u \in Tasks |->
       IF u = t
         THEN Named(SetTop(stack[t], [Top(t) EXCEPT !.pc = "acted"]), kind, h)
         ELSE Named(stack[u], kind, h)]
  /\ UNCHANGED << event_history, registered_modules, event_handlers, module_id,
                  running, nextId, shared_context, now, callVars >>

\* The callback calls unsubscribe(kind, h) while the event is being delivered.
ClientHandlerUnsubscribes(t, kind, h) ==
  /\ running = t
  /\ InClientHandler(t)
  /\ Top(t).pc = "start"
  /\ \E i \in 1..Len(subscribers[kind]) : subscribers[kind][i] = h
  /\ subscribers' = unsubscribe(subscribers, kind, h)
  /\ stack' = [u \in Tasks |->
       IF u = t
         THEN Named(SetTop(stack[t], [Top(t) EXCEPT !.pc = "acted"]), kind, h)
         ELSE Named(stack[u], kind, h)]
  /\ UNCHANGED << event_history, registered_modules, event_handlers, module_id,
                  running, nextId, shared_context, now, callVars >>

\* The callback awaits something that suspends it: the loop is free.
ClientHandlerAwaits(t) ==
  /\ running = t
  /\ InClientHandler(t)
  /\ Top(t).pc = "start"
  /\ stack' = [stack EXCEPT ![t] = SetTop(@, [Top(t) EXCEPT !.pc = "sleeping"])]
  /\ running' = 0
  /\ UNCHANGED << subscribers, event_history, registered_modules, event_handlers,
                  module_id, nextId, shared_context, now, callVars >>

ClientHandlerResumes(t) ==
  /\ running = 0
  /\ InClientHandler(t)
  /\ Top(t).pc = "sleeping"
  /\ stack' = [stack EXCEPT ![t] = SetTop(@, [Top(t) EXCEPT !.pc = "acted"])]
  /\ running' = t
  /\ UNCHANGED << subscribers, event_history, registered_modules, event_handlers,
                  module_id, nextId, shared_context, now, callVars >>

ClientHandlerReturns(t) ==
  /\ running = t
  /\ InClientHandler(t)
  /\ Top(t).pc \in {"start", "acted"}
  /\ stack' = [stack EXCEPT ![t] = BackToPublish(@, FALSE)]
  /\ UNCHANGED << subscribers, event_history, registered_modules, event_handlers,
                  module_id, running, nextId, shared_context, now, callVars >>

NextBus ==
  \/ \E kind \in BusKinds, h \in BusHandlers : Subscribe(kind, h)
  \/ \E kind \in BusKinds, h \in BusHandlers : Unsubscribe(kind, h)
  \/ \E kind \in BusKinds, h \in BusHandlers : SubscribeUnsubscribe(kind, h)
  \/ \E t \in Tasks :
       \/ \E event \in BusEvents : BoundedPublish(t, event)
       \/ PublishDeliver(t)
       \/ PublishReturn(t)
       \/ \E kind \in BusKinds, h \in BusHandlers : ClientHandlerSubscribes(t, kind, h)
       \/ \E kind \in BusKinds, h \in BusHandlers : ClientHandlerUnsubscribes(t, kind, h)
       \/ ClientHandlerAwaits(t)
       \/ ClientHandlerResumes(t)
       \/ ClientHandlerReturns(t)

BusSpec == InitBus /\ [][NextBus]_vars

(***************************************************************************)
(* The statistics of the bus: clients publish events, once or twice in a   *)
(* row, on a bus that has no subscriber or some callbacks of clients.      *)
(***************************************************************************)
\* The subscriber tables of StatsSpec: as constructed, and after a few calls
\* of subscribe.
StatsTables ==
  { [k \in DOMAIN ConstructedSubscribers |-> << >>],
    [k \in DOMAIN ConstructedSubscribers |->
       IF k = "task_created" THEN << "h1", "h2" >>
       ELSE IF k = "message_received" THEN << "h1" >>
       ELSE << >>] }

InitStats ==
  /\ subscribers \in StatsTables
  /\ event_history = << >>
  /\ registered_modules = << >>
  /\ event_handlers = {}
  /\ module_id = [o \in Owners |-> NoneId]
  /\ stack = [t \in Tasks |-> << >>]
  /\ running = 0
  /\ nextId = 1
  /\ shared_context = SharedContext(0)
  /\ now = 0
  /\ relevant_context = << >>
  /\ call = << >>
  /\ result = << >>

NextStats ==
  \E t \in Tasks :
    \/ \E event \in BusEvents : ClientPublish(t, event)
    \/ \E event \in BusEvents : PublishTwice(t, event)
    \/ PublishAgain(t)
    \/ PublishTwiceReturn(t)
    \/ PublishDeliver(t)
    \/ PublishReturn(t)
    \/ ClientHandlerAwaits(t)
    \/ ClientHandlerResumes(t)
    \/ ClientHandlerReturns(t)

StatsSpec == InitStats /\ [][NextStats]_vars

(***************************************************************************)
(* Properties                                                              *)
(***************************************************************************)
\* Every event a client could publish (the event id plays no part in routing).
AnyEvents ==
  { IntelligenceEvent(0, kind, source) :
      kind \in EventKinds, source \in ModuleIds \cup {ExternalId} }

IsPublishFrame(t, i) == i <= Len(stack[t]) /\ stack[t][i].op = "publish"

IsHubFrame(t, i) ==
  i <= Len(stack[t]) /\ stack[t][i].op = "handler" /\ stack[t][i].h = Core

InHistory(event) == \E j \in 1..Len(event_history) : event_history[j] = event

\* The step pops the publish frame on top of task t: publish returns.
PublishReturns(t) ==
  /\ ~Idle(t)
  /\ Top(t).op = "publish"
  /\ Len(stack'[t]) < Len(stack[t])

\* The callback on top of task t is at a point where it raises.
Raising(t) ==
  \/ /\ AboutToEmit(t)
     /\ \/ module_id[ModuleHandlers[Top(t).h].owner] = NoneId
        \/ Overflow(t)
  \/ /\ running = t
     /\ InHubHandler(t)
     /\ Top(t).pc = "start"
     /\ Overflow(t)

\* C1 (as claimed): an intelligence_response event published by the hub
\* causes no further event to be published: while it is being delivered, no
\* callback publishes again.
C1_ResponseEndsCascade ==
  \A t \in Tasks : \A i \in 2..Len(stack[t]) :
    ( /\ IsPublishFrame(t, i)
      /\ stack[t][i].event.event_type = "intelligence_response"
      /\ IsHubFrame(t, i - 1) )
    => \A j \in (i + 1)..Len(stack[t]) : ~IsPublishFrame(t, j)

\* C2: when a callback raises during publish, the delivery loop goes on with
\* the next callback (the failure does not leave publish), and a publish in
\* which callbacks raised still returns only after it has awaited every
\* callback subscribed for the kind.
C2_SubscriberFailureIsolated ==
  [][ \A t \in Tasks :
        /\ (Raising(t) /\ stack'[t] # stack[t]) =>
             LET n == Len(stack[t])
             IN /\ Len(stack'[t]) = n - 1
                /\ stack'[t][n - 1].op = "publish"
                /\ stack'[t][n - 1].event = stack[t][n - 1].event
                /\ stack'[t][n - 1].idx = stack[t][n - 1].idx + 1
                /\ stack'[t][n - 1].called = stack[t][n - 1].called
        /\ (PublishReturns(t) /\ Top(t).raised # {}) =>
             Top(t).called = subscribers[Top(t).event.event_type] ]_vars

\* C2 witness: in some publish a callback raised and a later callback of the
\* same list has been awaited.
C2_Witness ==
  \E t \in Tasks : \E i \in 1..Len(stack[t]) :
    /\ IsPublishFrame(t, i)
    /\ \E k \in stack[t][i].raised : Len(stack[t][i].called) > k

\* The gather results of a hub frame that are responses, as positions.
OkPositions(f) ==
  LET IsOk(i) == f.responses[i] = "response"
  IN SelectSeq([i \in 1..Len(f.responses) |-> i], IsOk)

FailedPositions(f) == { i \in 1..Len(f.responses) : f.responses[i] = "exception" }

\* A step in which one module invocation of task t's fan-out settles.
SettleStep(t) ==
  /\ InHubHandler(t)
  /\ Top(t).pc = "gather"
  /\ stack'[t] # stack[t]
  /\ Len(stack'[t]) = Len(stack[t])
  /\ stack'[t][Len(stack[t])].pc = "gather"

\* C3: once the orchestrator has returned, all n invocations have settled
\* and its list holds exactly the n-k responses of the invocations that did
\* not fail, in the order of the module list; an invocation that settles
\* changes no other invocation's result and publishes nothing.
C3_GatherKeepsSuccessesInOrder ==
  /\ [](\A t \in Tasks : \A i \in 1..Len(stack[t]) :
          (IsHubFrame(t, i) /\ stack[t][i].pc = "published") =>
            LET f == stack[t][i]
            IN /\ Len(f.responses) = Len(f.relevant_modules)
               /\ \A k \in 1..Len(f.responses) : f.responses[k] # "pending"
               /\ Len(f.module_responses) =
                    Len(f.relevant_modules) - Cardinality(FailedPositions(f))
               /\ f.module_responses =
                    [k \in 1..Len(OkPositions(f)) |->
                       ModuleResponse(f.relevant_modules[OkPositions(f)[k]])])
  /\ [][ \A t \in Tasks : SettleStep(t) =>
           LET before == Top(t).responses
               after == stack'[t][Len(stack[t])].responses
           IN /\ \E i \in 1..Len(before) :
                   /\ before[i] = "pending"
                   /\ after[i] # "pending"
                   /\ \A j \in 1..Len(before) : j # i => after[j] = before[j]
              /\ event_history' = event_history
              /\ nextId' = nextId ]_vars

\* C3 witness: the orchestrator returned for two modules, one of which failed.
C3_Witness ==
  \E t \in Tasks : \E i \in 1..Len(stack[t]) :
    /\ IsHubFrame(t, i)
    /\ stack[t][i].pc = "published"
    /\ Len(stack[t][i].relevant_modules) = 2
    /\ Cardinality(FailedPositions(stack[t][i])) = 1
    /\ Len(stack[t][i].module_responses) = 1

\* C4: the router's result for an event never contains the module whose id
\* is the event's source, for every event and in every handler that routed.
C4_SelfExclusion ==
  /\ \A e \in AnyEvents :
       LET routed == _get_relevant_modules(e, registered_modules)
       IN \A i \in 1..Len(routed) : routed[i].module_id # e.source_module
  /\ \A t \in Tasks : \A i \in 1..Len(stack[t]) :
       IsHubFrame(t, i) =>
         \A k \in 1..Len(stack[t][i].relevant_modules) :
           stack[t][i].relevant_modules[k].module_id # stack[t][i].event.source_module

\* C4 witness: the hub routed an event whose source is a registered module
\* with a capability of the kind's relevance set.
C4_Witness ==
  \E t \in Tasks : \E i \in 1..Len(stack[t]) :
    /\ IsHubFrame(t, i)
    /\ stack[t][i].pc = "published"
    /\ \E k \in 1..Len(registered_modules) :
         /\ registered_modules[k].module_id = stack[t][i].event.source_module
         /\ registered_modules[k].capabilities
              \cap relevance_map(stack[t][i].event.event_type) # {}

UnroutedKinds ==
  { "task_updated", "task_completed", "message_sent", "module_registered",
    "intelligence_response" }

\* C5: for an event of a kind without relevance set the router returns the
\* empty list, whatever the registry holds.
C5_UnroutedKindsAdmitNoModule ==
  \A e \in AnyEvents :
    e.event_type \in UnroutedKinds =>
      _get_relevant_modules(e, registered_modules) = << >>

\* C5 witness: with modules registered, the hub handled an event of such a
\* kind, selected no module and went on to publish its response.
C5_Witness ==
  \E t \in Tasks : \E i \in 1..Len(stack[t]) :
    /\ IsHubFrame(t, i)
    /\ stack[t][i].pc = "published"
    /\ stack[t][i].event.event_type \in UnroutedKinds
    /\ stack[t][i].relevant_modules = << >>
    /\ \E k \in 1..Len(registered_modules) :
         \E kind \in EventKinds :
           registered_modules[k].capabilities \cap relevance_map(kind) # {}

\* C6: the router's result is the registered modules, in registry order,
\* whose id differs from the event's source and that declare a capability of
\* the kind's relevance set; the routing step of the handler stores exactly
\* this list and changes nothing else.
C6_RouterIsOrderedFilter ==
  /\ [](\A e \in AnyEvents :
          LET Qualifies(m) ==
                /\ m.module_id # e.source_module
                /\ \E c \in m.capabilities : c \in relevance_map(e.event_type)
          IN _get_relevant_modules(e, registered_modules)
               = SelectSeq(registered_modules, Qualifies))
  /\ [][ \A t \in Tasks :
           ( /\ InHubHandler(t)
             /\ Top(t).pc = "start"
             /\ Len(stack'[t]) = Len(stack[t])
             /\ stack'[t][Len(stack[t])].pc = "gather" ) =>
             /\ stack'[t][Len(stack[t])].relevant_modules
                  = _get_relevant_modules(Top(t).event, registered_modules)
             /\ UNCHANGED << subscribers, event_history, registered_modules,
                             event_handlers, module_id, nextId >> ]_vars

\* C6 witness: the hub routed an event to two registered modules.
C6_Witness ==
  \E t \in Tasks : \E i \in 1..Len(stack[t]) :
    /\ IsHubFrame(t, i)
    /\ stack[t][i].pc = "gather"
    /\ Len(stack[t][i].relevant_modules) = 2
    /\ stack[t][i].relevant_modules = registered_modules

\* C7: the history never holds more than max_history events, and it is the
\* most recently published events in publish order (events are numbered as
\* they are published).
C7_HistoryBounded ==
  /\ Len(event_history) <= max_history
  /\ Len(event_history) = IF nextId - 1 < max_history THEN nextId - 1 ELSE max_history
  /\ \A j \in 1..Len(event_history) :
       event_history[j].event_id = nextId - 1 - Len(event_history) + j

\* C7 witness: more than max_history events were published; the first is
\* gone and the last is the newest entry.
C7_Witness ==
  /\ nextId - 1 > max_history
  /\ \A j \in 1..Len(event_history) : event_history[j].event_id # 1
  /\ event_history[Len(event_history)].event_id = nextId - 1

\* C8 (as claimed): an event is appended to the history only after it has
\* been delivered: while publish is delivering it, it is not in the history.
C8_AppendAfterDelivery ==
  \A t \in Tasks : \A i \in 1..Len(stack[t]) :
    IsPublishFrame(t, i) => ~InHistory(stack[t][i].event)

\* C8 (amended): publish appends the event before it delivers it: an event
\* being delivered is in the history unless newer events have evicted it,
\* and an event published by a callback during the delivery comes after the
\* outer event in the history.
C8_AppendBeforeDelivery ==
  \A t \in Tasks : \A i \in 1..Len(stack[t]) :
    IsPublishFrame(t, i) =>
      /\ \/ InHistory(stack[t][i].event)
         \/ /\ Len(event_history) = max_history
            /\ event_history[1].event_id > stack[t][i].event.event_id
      /\ \A j \in (i + 1)..Len(stack[t]) :
           IsPublishFrame(t, j) =>
             \A a, b \in 1..Len(event_history) :
               ( /\ event_history[a] = stack[t][i].event
                 /\ event_history[b] = stack[t][j].event ) => a < b

\* C8 witness: a publish that has not delivered to anyone yet has its event
\* in the history, after the event of the publish it is nested in.
C8_Witness ==
  \E t \in Tasks : \E i \in 1..Len(stack[t]) : \E j \in (i + 1)..Len(stack[t]) :
    /\ IsPublishFrame(t, i)
    /\ IsPublishFrame(t, j)
    /\ j = Len(stack[t])
    /\ stack[t][j].called = << >>
    /\ \E a, b \in 1..Len(event_history) :
         /\ a < b
         /\ event_history[a] = stack[t][i].event
         /\ event_history[b] = stack[t][j].event

\* C9: publish awaits the callbacks subscribed for the event's kind, each
\* once per subscription and in subscription order, no other callback, and
\* it returns only after it has awaited all of them.
C9_DeliveryInSubscriptionOrder ==
  /\ [](\A t \in Tasks : \A i \in 1..Len(stack[t]) :
          IsPublishFrame(t, i) =>
            LET f == stack[t][i]
                list == subscribers[f.event.event_type]
            IN /\ Len(f.called) = IF i < Len(stack[t]) THEN f.idx ELSE f.idx - 1
               /\ Len(f.called) <= Len(list)
               /\ f.called = SubSeq(list, 1, Len(f.called)))
  /\ [][ \A t \in Tasks :
           PublishReturns(t) =>
             Top(t).called = subscribers[Top(t).event.event_type] ]_vars

\* C9 witness: a publish has awaited three callbacks and is about to return.
C9_Witness ==
  \E t \in Tasks :
    /\ ~Idle(t)
    /\ Top(t).op = "publish"
    /\ Len(Top(t).called) = 3
    /\ Top(t).called = subscribers[Top(t).event.event_type]

\* C10 (as claimed): every invocation of the hub's handler ends having
\* published one response, whose request id is the handled event's id and
\* whose module responses come from modules the router selected.
C10_OneResponsePerEvent ==
  [][ \A t \in Tasks :
        (InHubHandler(t) /\ Len(stack'[t]) < Len(stack[t])) =>
          /\ Top(t).pc = "published"
          /\ Top(t).response_event.event_type = "intelligence_response"
          /\ Top(t).response_event.request_id = Top(t).event.event_id
          /\ \A i \in 1..Len(Top(t).module_responses) :
               \E k \in 1..Len(Top(t).relevant_modules) :
                 Top(t).module_responses[i].module_id
                   = Top(t).relevant_modules[k].module_id ]_vars

\* The hub's handler on top of task t takes a step.
HubStep(t) == InHubHandler(t) /\ stack'[t] # stack[t]

\* C11: the store changes only in the first step of the hub's handler for an
\* event, the step that ends with the routing done (fan-out started, response
\* published, or the handler failed), and in that step it becomes the store
\* updated once from that event; the steps of the fan-out (an invocation
\* settles, the results are collected) change neither the store nor the
\* registry nor the subscriber table.
C11_ContextUpdatedOnceBeforeFanOut ==
  [][ /\ \A t \in Tasks :
           /\ (HubStep(t) /\ Top(t).pc = "start") =>
                shared_context' = update_from_event(shared_context, Top(t).event, now)
           /\ (HubStep(t) /\ Top(t).pc = "gather") =>
                UNCHANGED << shared_context, registered_modules, subscribers >>
      /\ shared_context' # shared_context =>
           \E t \in Tasks : HubStep(t) /\ Top(t).pc = "start" ]_vars

\* C11 witness: an invocation of a fan-out has settled with a response, and
\* the store holds the count its user_activity event added.
C11_Witness ==
  \E t \in Tasks :
    /\ InHubHandler(t)
    /\ Top(t).pc = "gather"
    /\ Top(t).event.event_type = "user_activity"
    /\ \E i \in 1..Len(Top(t).responses) : Top(t).responses[i] = "response"
    /\ "default" \in DOMAIN shared_context.behavior_patterns
    /\ shared_context.behavior_patterns["default"]["unknown"] = 1

\* C12 (as claimed): while the fan-out of an event is in progress (its
\* handler waits in gather) the store does not change.
C12_NoMutationDuringFanOut ==
  [][ (\E t \in Tasks : \E i \in 1..Len(stack[t]) :
         IsHubFrame(t, i) /\ stack[t][i].pc = "gather")
      => shared_context' = shared_context ]_vars

\* C13 (as claimed): a value returned by get_relevant_context reads the same
\* whatever is applied to the store afterwards.
C13_ReturnedContextIsCopy ==
  [][ (relevant_context # << >> /\ relevant_context' = relevant_context) =>
        Read(relevant_context, shared_context')
          = Read(relevant_context, shared_context) ]_vars

NoModulesMarker == [message |-> "No modules processed this event"]

\* The synthesizer has returned for the call.
Synthesized == result # << >>

\* C15: for the empty list the synthesizer returns the marker map (it has a
\* value: nothing is raised), and the value it returns is the marker only
\* if the list was empty.
C15_EmptyListGivesMarker ==
  /\ _generate_core_insights(<< >>) = {NoModulesMarker}
  /\ Synthesized => (result = NoModulesMarker <=> call.responses = << >>)
  /\ Synthesized /\ call.responses # << >> => "message" \notin DOMAIN result

\* C15 witness: the synthesizer returned the marker for the empty list.
C15_Witness ==
  /\ call.responses = << >>
  /\ result = NoModulesMarker

\* C16 (as claimed): consensus is "high" exactly when the average of the
\* confidences present is at least the threshold, the average is 0 without
\* confidences and is reported rounded to hundredths; for [0.9, 0.5] the
\* average is 0.70 and the consensus "high".
C16_ThresholdInclusive ==
  (Synthesized /\ call.responses # << >>) =>
    LET all_confidences == AllConfidences(call.responses, 1)
        total == Sum(all_confidences)
        n == Len(all_confidences)
    IN /\ result.consensus_level = "high"
            <=> (n > 0 /\ total >= consensus_threshold * n)
       /\ result.average_confidence = IF n = 0 THEN 0 ELSE Round2(total, n)
       /\ all_confidences = << 90, 50 >> =>
            /\ result.average_confidence = 70
            /\ result.consensus_level = "high"

\* The distinct insights of the responses passed in.
InputInsights ==
  { responses_insights[i] :
      responses_insights \in {AllInsights(call.responses, 1)},
      i \in 1..Len(AllInsights(call.responses, 1)) }

\* C17: for a non-empty list, synthesized_insights has no duplicate, at most
\* synthesized_cap entries, only insights of the input, as many entries as
\* there are distinct input insights up to the cap, and modules_engaged is
\* the length of the list.
C17_InsightsDeduplicatedAndCapped ==
  (Synthesized /\ call.responses # << >>) =>
    LET out == result.synthesized_insights
        distinct == Cardinality(InputInsights)
    IN /\ \A i, j \in 1..Len(out) : i # j => out[i] # out[j]
       /\ Len(out) <= synthesized_cap
       /\ \A i \in 1..Len(out) : out[i] \in InputInsights
       /\ Len(out) = IF distinct < synthesized_cap THEN distinct ELSE synthesized_cap
       /\ result.modules_engaged = Len(call.responses)

\* C17 witness: six distinct insights, one of them in both responses, were
\* synthesized into five.
C17_Witness ==
  /\ Synthesized
  /\ Len(call.responses) = 2
  /\ Cardinality(InputInsights) = 6
  /\ Len(AllInsights(call.responses, 1)) > 6
  /\ Len(result.synthesized_insights) = synthesized_cap

\* The step in which task t calls register_module.
RegisterCall(t) ==
  /\ Idle(t)
  /\ stack'[t] # << >>
  /\ stack'[t][1].op = "register"

\* C18: the registry holds one registration per id, total_modules and the
\* list of GET /modules count and return exactly these; a register call
\* puts its registration under its id, in place of the one held for that id
\* before if there was one, and leaves the other ids as they were; nothing
\* else changes the registry; and register returns the registration the
\* call stored (its id is the one the module keeps).
C18_RegistryLastWriteWins ==
  /\ [](/\ \A i, j \in 1..Len(registered_modules) :
             i # j => registered_modules[i].module_id # registered_modules[j].module_id
        /\ get_module_stats(registered_modules).total_modules = Cardinality(RegisteredIds)
        /\ Len(list_modules(registered_modules)) = Cardinality(RegisteredIds)
        /\ \A i \in 1..Len(registered_modules) :
             list_modules(registered_modules)[i] = registered_modules[i])
  /\ [][ /\ \A t \in Tasks : RegisterCall(t) =>
               LET registration == stack'[t][1].registration
               IN /\ \E i \in 1..Len(registered_modules') :
                       registered_modules'[i] = registration
                  /\ \A i \in 1..Len(registered_modules') :
                       registered_modules'[i].module_id # registration.module_id =>
                         \E j \in 1..Len(registered_modules) :
                           registered_modules[j] = registered_modules'[i]
                  /\ \A j \in 1..Len(registered_modules) :
                       registered_modules[j].module_id # registration.module_id =>
                         \E i \in 1..Len(registered_modules') :
                           registered_modules'[i] = registered_modules[j]
         /\ registered_modules' # registered_modules =>
               \E t \in Tasks : RegisterCall(t)
         /\ \A t \in Tasks :
               ( /\ ~Idle(t) /\ Top(t).op = "register" /\ Top(t).h \in Owners
                 /\ Idle(t)' ) =>
                 module_id'[Top(t).h] = Top(t).registration.module_id ]_vars

\* C18 witness: two ids are registered, and the id the task module was given
\* is now held by a registration a client posted later.
C18_Witness ==
  /\ Len(registered_modules) = 2
  /\ module_id["task"] # NoneId
  /\ \E i \in 1..Len(registered_modules) :
       /\ registered_modules[i].module_id = module_id["task"]
       /\ registered_modules[i].module_type = "third_party"

\* C19 (as claimed): the stats hold, for each module category, the number of
\* registered modules of that category, these counts add up to
\* total_modules, and active_capabilities is the union of the registered
\* modules' capabilities.
C19_StatsGroupByCategory ==
  LET stats == get_module_stats(registered_modules)
      OfCategory(c) ==
        {i \in 1..Len(registered_modules) : registered_modules[i].module_type = c}
  IN /\ \A c \in ModuleType :
          /\ c \in DOMAIN stats.modules_by_type
          /\ stats.modules_by_type[c] = Cardinality(OfCategory(c))
     /\ stats.total_modules
          = Cardinality({i \in 1..Len(registered_modules) :
                          registered_modules[i].module_type \in DOMAIN stats.modules_by_type})
     /\ stats.active_capabilities
          = UNION {registered_modules[i].capabilities : i \in 1..Len(registered_modules)}

\* The registered module that declares task_management, and the claim's
\* conclusion: it alone contributed to the response.
TaskManagementModule ==
  CHOOSE i \in 1..Len(registered_modules) :
    "task_management" \in registered_modules[i].capabilities

OnlyTaskManagementEngaged ==
  /\ Get(result.core_insights, "modules_engaged", 0) = 1
  /\ Len(result.module_responses) = 1
  /\ result.module_responses[1].module_id
       = registered_modules[TaskManagementModule].module_id

PublishedTwice(t) ==
  /\ running = t
  /\ ~Idle(t)
  /\ Top(t).op = "publish_twice"
  /\ Top(t).pc = "second"

\* The statistics now against those read before the first publish: two more
\* events in all, two more of the kind of event.
TwoMore(event, before) ==
  LET stats == get_event_stats(event_history, subscribers)
  IN /\ stats.total_events = before.total_events + 2
     /\ stats.events_by_type[event.event_type] =
          Get(before.events_by_type, event.event_type, 0) + 2

\* C21: publishing the same event twice increases total_events by exactly 2
\* and the events_by_type count of the event's kind by exactly 2.
C21_SameEventTwiceCountsTwo ==
  \A t \in Tasks : PublishedTwice(t) => TwoMore(call.event, call.stats)

\* C21, amended: the same holds when the history had room for two more
\* entries before the first publish (the statistics are computed from the
\* bounded history) and nothing else was published in between; an event that
\* is already in the history is counted again.
C21_SameEventTwiceCountsTwo_Amended ==
  \A t \in Tasks :
    PublishedTwice(t) /\ call.stats.total_events <= max_history - 2 /\ call.alone
      => TwoMore(call.event, call.stats)

\* The event had been published before, there was room, and other events of
\* another kind are in the history.
C21_Witness ==
  \E t \in Tasks :
    /\ PublishedTwice(t)
    /\ call.stats.total_events = max_history - 2
    /\ call.alone
    /\ call.event.event_type \in DOMAIN call.stats.events_by_type
    /\ Len(event_history) = max_history
    /\ event_history[1] = call.event
    /\ event_history[2] = call.event
    /\ event_history[3] = call.event
(***************************************************************************)
(* The shared context store                                                *)
(***************************************************************************)
\* The step appends an entry to the conversation log: the entries it had stay
\* in their order, the oldest is dropped when the log was full, and the new
\* entry, stamped with the clock's reading, is the last.
ConversationAppended ==
  LET log == shared_context.conversation_history
      after == shared_context'.conversation_history
  IN /\ after # << >>
     /\ after[Len(after)].timestamp = now
     /\ after[Len(after)].event_type \in MessageKinds
     /\ SubSeq(after, 1, Len(after) - 1) =
          IF Len(log) = conversation_capacity THEN Tail(log) ELSE log

\* C22: the conversation log never holds more than its capacity of entries,
\* it is in append order, and an append to a full log (the 101st append)
\* drops the first entry and puts the new one at the end.
C22_ConversationLogBounded ==
  /\ [](Len(shared_context.conversation_history) <= conversation_capacity)
  /\ [](\A i, j \in 1..Len(shared_context.conversation_history) :
          i < j => shared_context.conversation_history[i].timestamp
                     <= shared_context.conversation_history[j].timestamp)
  /\ [][shared_context'.conversation_history # shared_context.conversation_history
          => ConversationAppended]_vars
  /\ [][\A event \in ContextEvents :
          /\ event.event_type \in MessageKinds
          /\ shared_context' = update_from_event(shared_context, event, now)
          => ConversationAppended]_vars

\* An entry that was the last of the log when a caller read it (at clock
\* reading 0) is gone from the full log: capacity + 1 appends were made.
C22_Witness ==
  /\ relevant_context # << >>
  /\ Len(relevant_context.recent_conversations) = 1
  /\ relevant_context.recent_conversations[1].timestamp = 0
  /\ Len(shared_context.conversation_history) = conversation_capacity
  /\ \A i \in 1..Len(shared_context.conversation_history) :
       shared_context.conversation_history[i].timestamp > 0

\* The step applies an insight_generated event to the store.
InsightWritten(event) ==
  /\ event.event_type = "insight_generated"
  /\ shared_context' = update_from_event(shared_context, event, now)

\* C23: right after a write to the insight cache at clock reading t the cache
\* holds no entry stamped at or before t minus one hour, and it holds the
\* entry just written.
C23_PurgeOnWrite ==
  [][\A event \in ContextEvents :
       InsightWritten(event) =>
         LET cache == shared_context'.insight_cache
         IN /\ \A i \in 1..Len(cache) : ~(cache[i].timestamp <= now - one_hour)
            /\ \E i \in 1..Len(cache) :
                 /\ cache[i].timestamp = now
                 /\ cache[i].source_module = event.source_module
                 /\ cache[i].insight = Get(event.payload, "insight", << >>)]_vars

\* An entry a caller had read from the cache, stamped exactly one hour before
\* the latest write, is gone, and the entry of that write is there.
C23_Witness ==
  /\ relevant_context # << >>
  /\ Len(relevant_context.recent_insights) = 1
  /\ relevant_context.recent_insights[1].timestamp = now - one_hour
  /\ \E i \in 1..Len(shared_context.insight_cache) :
       shared_context.insight_cache[i].timestamp = now
  /\ \A i \in 1..Len(shared_context.insight_cache) :
       shared_context.insight_cache[i].timestamp > now - one_hour

(***************************************************************************)
(* Event injection and registration                                        *)
(***************************************************************************)
\* Task t runs create_task, which has not returned its acknowledgement yet.
InCreateTask(t) == ~Idle(t) /\ stack[t][1].op = "create_task"

\* C24: create_task is fire-and-forget: its acknowledgement does not wait for
\* the hub's orchestration and synthesis of the event, that is, the hub's
\* handling of the event is never on the chain of coroutines create_task
\* awaits before it returns.
C24_AcknowledgedWithoutWaiting ==
  \A t \in Tasks :
    InCreateTask(t) =>
      \A i \in 1..Len(stack[t]) :
        ~(IsHubFrame(t, i) /\ stack[t][i].event = stack[t][1].event)

\* Task t is inside a register call and the publish loop on top of its chain
\* is the one of that call's module_registered event.
DeliversRegistration(t) ==
  /\ ~Idle(t)
  /\ stack[t][1].op = "register"
  /\ Len(stack[t]) = 2
  /\ Top(t).op = "publish"
  /\ Len(stack'[t]) = 3

\* The event's source and payload are those of registration.
AnnouncesRegistration(event, registration) ==
  /\ event.event_type = "module_registered"
  /\ event.source_module = registration.module_id
  /\ DOMAIN event.payload = {"module_name", "module_type", "capabilities"}
  /\ event.payload.module_name = registration.name
  /\ event.payload.module_type = registration.module_type
  /\ event.payload.capabilities = registration.capabilities

\* C25: a register call publishes exactly one module_registered event, whose
\* source is the registered module's id and whose payload carries its name,
\* category and capabilities (nothing else inside the call publishes an event
\* of that kind), and whenever that event is delivered to a subscriber the
\* registry holds the registration.
C25_RegisterPublishesOneEvent ==
  /\ [][\A t \in Tasks : RegisterCall(t) =>
           /\ Len(stack'[t]) = 2
           /\ AnnouncesRegistration(stack'[t][2].event, stack'[t][1].registration)
           /\ event_history' = AppendHistory(event_history, stack'[t][2].event)
           /\ nextId' = nextId + 1]_vars
  /\ [][\A t \in Tasks :
           ( /\ ~Idle(t)
             /\ stack[t][1].op = "register"
             /\ event_history' # event_history )
           => event_history'[Len(event_history')].event_type # "module_registered"]_vars
  /\ [][\A t \in Tasks : DeliversRegistration(t) =>
           /\ AnnouncesRegistration(Top(t).event, stack[t][1].registration)
           /\ \E i \in 1..Len(registered_modules) :
                registered_modules[i] = stack[t][1].registration]_vars

\* C25 witness: the event of a client's registration, made when events had
\* been published before and with two ids in the registry, is being delivered
\* to the hub's handler.
C25_Witness ==
  \E t \in Tasks :
    /\ Len(stack[t]) = 3
    /\ stack[t][1].op = "register"
    /\ IsHubFrame(t, 3)
    /\ stack[t][3].event.event_type = "module_registered"
    /\ stack[t][1].registration.module_type = "third_party"
    /\ Len(registered_modules) = 2
    /\ nextId > 3

\* part is the last n entries of whole (all of them if there are fewer), in
\* the order of whole.
IsLastN(part, whole, n) ==
  /\ Len(part) = IF Len(whole) < n THEN Len(whole) ELSE n
  /\ \A i \in 1..Len(part) : part[i] = whole[Len(whole) - Len(part) + i]

\* The payload names a user (an empty id names nobody).
NamesUser(event) ==
  "user_id" \in DOMAIN event.payload /\ event.payload.user_id # ""

\* What the caller that has just got returned for event finds in it.
IsRelevantContext(returned, event) ==
  LET got == Read(returned, shared_context)
      active == {id \in DOMAIN shared_context.task_context :
                   /\ "status" \in DOMAIN shared_context.task_context[id]
                   /\ shared_context.task_context[id].status
                        \in {"pending", "in_progress"}}
      withUser == /\ NamesUser(event)
                  /\ event.payload.user_id \in DOMAIN shared_context.behavior_patterns
  IN /\ DOMAIN got = {"recent_conversations", "active_tasks", "recent_insights"}
                       \cup (IF withUser THEN {"user_behavior"} ELSE {})
     /\ IsLastN(got.recent_conversations, shared_context.conversation_history,
                recent_conversations)
     /\ DOMAIN got.active_tasks = active
     /\ \A id \in active : got.active_tasks[id] = shared_context.task_context[id]
     /\ IsLastN(got.recent_insights, shared_context.insight_cache, recent_insights)
     /\ withUser =>
          got.user_behavior = shared_context.behavior_patterns[event.payload.user_id]

ContextViews ==
  {"task_context", "conversation_history", "behavior_patterns", "insight_cache"}

ViewOf(kind) ==
  IF kind \in {"task_created", "task_updated", "task_completed"}
    THEN {"task_context"}
  ELSE IF kind \in {"message_received", "message_sent"}
    THEN {"conversation_history"}
  ELSE IF kind = "user_activity" THEN {"behavior_patterns"}
  ELSE IF kind = "insight_generated" THEN {"insight_cache"}
  ELSE {}

\* C27: update_from_event changes at most one of the four views, the one of
\* the event's kind: the task map for task_* events, the conversation log for
\* message_* events, the behaviour counters for user_activity, the insight
\* cache for insight_generated, and none for module_registered and
\* intelligence_response.
C27_UpdateChangesOnlyItsView ==
  [][\A event \in ContextEvents :
       shared_context' = update_from_event(shared_context, event, now) =>
         /\ {v \in ContextViews : shared_context'[v] # shared_context[v]}
              \subseteq ViewOf(event.event_type)
         /\ Cardinality(ViewOf(event.event_type)) <= 1]_vars

\* C27 witness: events of all four kinds have been applied, the last of them
\* at the latest clock reading.
C27_Witness ==
  /\ \A v \in ContextViews : shared_context[v] # << >>
  /\ Len(shared_context.conversation_history) = conversation_capacity
  /\ shared_context.last_updated = MaxTime

\* A dict without some of its keys.
Without(d, keys) == [k \in (DOMAIN d) \ keys |-> d[k]]

\* The four views with their timestamps left aside.
Untimed(context) ==
  [task_context |->
     [id \in DOMAIN context.task_context |->
        Without(context.task_context[id], {"last_activity"})],
   conversation_history |->
     [i \in 1..Len(context.conversation_history) |->
        Without(context.conversation_history[i], {"timestamp"})],
   behavior_patterns |-> context.behavior_patterns,
   insight_cache |->
     [i \in 1..Len(context.insight_cache) |->
        Without(context.insight_cache[i], {"timestamp", "key"})]]

\* C28: the mutators are idempotent under repetition: when update_from_event
\* has applied an event, applying the same event once more (at the same or a
\* later clock reading) leaves the four views, timestamps aside, as they are.
C28_UpdateIdempotent ==
  [][\A event \in ContextEvents :
       shared_context' = update_from_event(shared_context, event, now) =>
         \A later \in now..MaxTime :
           Untimed(update_from_event(shared_context', event, later))
             = Untimed(shared_context')]_vars

(***************************************************************************)
(* The bus: subscribe and unsubscribe                                      *)
(***************************************************************************)
\* C29: subscribe(kind, h) followed by unsubscribe(kind, h) restores the
\* subscriber table: the callbacks of kind are the same, in the same order
\* and with the same multiplicities, as before the subscribe, also when h was
\* subscribed for kind already, and the other kinds are untouched.
C29_SubscribeUnsubscribeRestores ==
  [][\A kind \in BusKinds, h \in BusHandlers :
       subscribers' = unsubscribe(subscribe(subscribers, kind, h), kind, h)
         => subscribers' = subscribers]_vars

\* How many times callback h was awaited by the delivery loop of frame p.
Deliveries(p, h) == Cardinality({i \in 1..Len(p.called) : p.called[i] = h})

\* C30: a callback that stays subscribed for a kind throughout a publish of
\* that kind receives the event exactly once, also when another callback of
\* the kind is subscribed or unsubscribed during the delivery, by a callback
\* or by another task.
C30_SteadySubscriberGetsEventOnce ==
  [][\A t \in Tasks :
       PublishReturns(t) => \A h \in Top(t).steady : Deliveries(Top(t), h) = 1]_vars

(***************************************************************************)
(* The hub: the modules of a fan-out                                       *)
(***************************************************************************)
\* Frame i of task t is the hub's handler with its routing done.
Routed(t, i) ==
  IsHubFrame(t, i) /\ stack[t][i].pc \in {"gather", "published"}

\* Frame i of task t is still the same call of the handler after the step.
SameCall(t, i) ==
  /\ i <= Len(stack'[t])
  /\ stack'[t][i].op = "handler"
  /\ stack'[t][i].h = Core
  /\ stack'[t][i].event = stack[t][i].event

\* The registry holds a registration that is relevant for the event of
\* frame f and is not one of the registrations f was routed to.
RegisteredSinceRouting(f) ==
  \E k \in 1..Len(_get_relevant_modules(f.event, registered_modules)) :
    \A j \in 1..Len(f.relevant_modules) :
      f.relevant_modules[j] # _get_relevant_modules(f.event, registered_modules)[k]

\* C31: the modules invoked for an event are the registrations the router
\* selected from the registry in the step that started the fan-out, one
\* invocation each; no later step of any task (a registration or a
\* re-registration included) changes that list, an invocation that has
\* settled stays settled with its outcome (no retry), and the response holds
\* the responses of the selected registrations that did not fail and of no
\* other.
C31_FanOutFixedAtRouting ==
  [][\A t \in Tasks :
       /\ (HubStep(t) /\ Top(t).pc = "start"
             /\ Len(stack'[t]) = Len(stack[t])
             /\ stack'[t][Len(stack[t])].pc = "gather") =>
            LET f == stack'[t][Len(stack[t])]
            IN /\ f.relevant_modules
                    = _get_relevant_modules(Top(t).event, registered_modules)
               /\ f.responses = [k \in 1..Len(f.relevant_modules) |-> "pending"]
       /\ \A i \in 1..Len(stack[t]) :
            (Routed(t, i) /\ SameCall(t, i)) =>
              /\ stack'[t][i].relevant_modules = stack[t][i].relevant_modules
              /\ Len(stack'[t][i].responses) = Len(stack[t][i].responses)
              /\ \A k \in 1..Len(stack[t][i].responses) :
                   stack[t][i].responses[k] # "pending" =>
                     stack'[t][i].responses[k] = stack[t][i].responses[k]
       /\ (HubStep(t) /\ Top(t).pc = "gather"
             /\ stack'[t][Len(stack[t])].pc = "published") =>
            LET f == stack'[t][Len(stack[t])]
            IN /\ f.module_responses =
                    [k \in 1..Len(OkPositions(Top(t))) |->
                       ModuleResponse(Top(t).relevant_modules[OkPositions(Top(t))[k]])]
               /\ f.response_event.module_responses = f.module_responses
               /\ \E j \in 1..Len(event_history') :
                    event_history'[j] = f.response_event ]_vars

\* C31 witness: a fan-out has published its response with the response of
\* a module it was routed to, while the registry holds a relevant
\* registration made after the routing.
C31_Witness ==
  \E t \in Tasks : \E i \in 1..Len(stack[t]) :
    /\ IsHubFrame(t, i)
    /\ stack[t][i].pc = "published"
    /\ stack[t][i].module_responses # << >>
    /\ RegisteredSinceRouting(stack[t][i])

(***************************************************************************)
(* The store: the insight cache                                            *)
(***************************************************************************)
\* The entries of the insight cache that are inside the one-hour window at
\* clock reading t.
InWindow(cache, t) ==
  LET Fresh(v) == IsFresh(v.timestamp, t)
  IN SelectSeq(cache, Fresh)

\* C32 (as claimed): every insight_generated event applied to the store adds
\* an entry of its own to the insight cache: after the write the cache holds
\* every earlier entry that is still inside the one-hour window, unchanged,
\* and one entry more, the entry of the event; also when the event has the
\* source module and the clock reading of an earlier one.
C32_EveryInsightAddsAnEntry ==
  [][\A event \in InsightEvents :
       shared_context' = update_from_event(shared_context, event, now) =>
         LET before == InWindow(shared_context.insight_cache, now)
             after == shared_context'.insight_cache
         IN /\ Len(after) = Len(before) + 1
            /\ \A i \in 1..Len(before) :
                 \E j \in 1..Len(after) :
                   /\ after[j].insight = before[i].insight
                   /\ after[j].timestamp = before[i].timestamp
                   /\ after[j].source_module = before[i].source_module]_vars
====
